---------------------------- MODULE Spec2Model ----------------------------
(* A model of the data-acquisition core of MEnvAgent's curation code:      *)
(*   - curation/crawl_repo.py: the credential cycle, github_api_request,   *)
(*     get_total_count, fetch_repos_in_range and bfs_star_range;           *)
(*   - curation/swe_task_crawling/utils.py: Repo.call_api, the tag cache   *)
(*     and Repo.get_version_at_commit, Repo.get_all_loop;                  *)
(*   - curation/swe_task_crawling/build_dataset.py: the version of the     *)
(*     instance create_instance returns.                                   *)
(* Each component has its own specification over the shared variables:     *)
(* SpecBfs and LiveBfs (the range-bisection crawl), SpecCallApi (one       *)
(* GraphQL call after another), SpecVersion (the version resolutions of    *)
(* one Repo), SpecPages (one run of the paginator).                        *)
EXTENDS Integers, Sequences, FiniteSets, TLC

VARIABLES
    \* ---- crawl_repo.py ----
    pc,           \* position of crawl_github_repos / bfs_star_range
    seed,         \* <<stars_min, stars_max>> as passed to bfs_star_range
    repos,        \* the remote's data: star value -> number of repositories
    token_cycle,  \* the cycle load_tokens returned: [tokens, pos]
    queue,        \* bfs_star_range: the worklist
    cur,          \* bfs_star_range: (s_min, s_max) popped last
    page,         \* fetch_repos_in_range: the page requested next
    all_items,    \* fetch_repos_in_range: items of the pages read so far
    all_results,  \* bfs_star_range: accumulated result
    nreq,         \* number of session.get calls so far (saturates at MaxReq)
    last_req,     \* [token, status, phase] of the last session.get
    paginated,    \* history: the ranges whose pages were all read
    discarded,    \* history: the ranges given up (no match, failed count
                  \* query, split with mid <= s_min)
    \* ---- utils.py, Repo.call_api ----
    ca_pc,        \* "idle" | "running" | "returned" | "raised"
    ca_attempt,   \* the local variable attempt
    ca_posts,     \* requests.post calls made by the current call
    ca_fails,     \* how many of them raised (connection error, timeout)
    ca_slept,     \* seconds slept by the current call
    ca_result,    \* what the call returned or raised
    ca_resp,      \* the response the last requests.post produced
    ca_token,     \* self.token, the bearer token of self.headers
    ca_sent,      \* history: the bearer token of the last requests.post
    \* ---- utils.py, the tag cache and get_version_at_commit ----
    refs,         \* the remote's tag refs: [name, oid], in listing order
    tags_cache,   \* self._tags_cache: [none, tags]
    tags_cache_loaded,  \* self._tags_cache_loaded
    v_pc,         \* "idle" | "list" | "tag" | "commit" | "returned"
    v_sha,        \* commit_sha of the current call
    v_i,          \* _load_tags_cache: index of the tag of the for loop
    v_out,        \* what the last call_api of the Repo returned or raised
    v_commit_date,\* the local variable commit_date
    v_result,     \* what get_version_at_commit returned
    calls,        \* history: calls of get_version_at_commit so far
    listings,     \* history: tag-ref listing requests so far
    tag_reqs,     \* history: per-tag date requests so far
    abandoned,    \* history: the except clause of _load_tags_cache ran,
                  \* and the list it threw away
    instance,     \* build_dataset.py: the instance create_instance returned
    \* ---- utils.py, Repo.get_all_loop ----
    gl_pc,        \* "idle" | "request" | "wait" | "done" | "raised"
    gl_world,     \* the remote's pages: [nodes, hasNextPage] per cursor
    gl_num_pages, \* the parameter num_pages (0 for None)
    gl_after,     \* variables["after"] (0 for None)
    gl_page,      \* the local variable page
    gl_yielded,   \* the values yielded so far
    gl_response,  \* the local variable response
    gl_out,       \* what the last call_api returned or raised
    gl_polls,     \* passes of the inner while loop that slept
    \* ---- build_dataset.py, the instance id ----
    id_pulls,     \* two pulls: [full_name, number] each
    id_out,       \* the instance ids computed for them
    \* ---- utils.py, _extract_hints ----
    h_tz,         \* the UTC offset of the process's local time zone, in hours
    h_commits,    \* the author dates of the pull's commits, as returned
    h_comments,   \* the issue's comments: [updatedAt, body]
    h_out,        \* what _extract_hints returned: [hints, all]
    \* ---- utils.py, extract_patches ----
    p_diff,       \* the files of the pull's diff: [path, text]
    p_out,        \* what extract_patches returned: [patch_fix, patch_test]
    \* ---- build_dataset.py, main ----
    pr_file,      \* the lines of the pull file: pull numbers of one repository
    m_world,      \* the remote's data: pull number -> what the pull holds
    base_file,    \* the records of the file output + ".base"
    medium_file,  \* the records of the file output + ".medium"
    high_file,    \* the records of the file output + ".high"
    base_instances,
    medium_instances,
    high_instances,
    total_instances,
    seen_prs,     \* the ids read from the .base file at the start of the run
    m_pc,         \* "start" | "loop" | "base" | "medium" | "high" | "done" |
                  \* "killed" | "aborted"
    m_ix,         \* the line of pr_file the loop is at (from 1)
    m_instance,   \* the local variable instance
    m_run,        \* history: number of runs of main started
    m_out,        \* history: how the last line handled ended
    m_len0,       \* history: the lengths of the three files when the run began
    assembled,    \* history: ids create_instance returned for in earlier runs
    assembled_now \* history: ids create_instance returned for in this run

bfs_vars == <<pc, seed, repos, token_cycle, queue, cur, page, all_items,
              all_results, nreq, last_req, paginated, discarded>>
ca_vars == <<ca_pc, ca_attempt, ca_posts, ca_fails, ca_slept, ca_result,
            ca_resp, ca_token, ca_sent>>
ver_vars == <<refs, tags_cache, tags_cache_loaded, v_pc, v_sha, v_i, v_out,
             v_commit_date, v_result, calls, listings, tag_reqs, abandoned,
             instance>>
gl_vars == <<gl_pc, gl_world, gl_num_pages, gl_after, gl_page, gl_yielded,
            gl_response, gl_out, gl_polls>>
id_vars == <<id_pulls, id_out>>
h_vars == <<h_tz, h_commits, h_comments, h_out>>
p_vars == <<p_diff, p_out>>
tier_files == <<base_file, medium_file, high_file>>
tier_counters == <<base_instances, medium_instances, high_instances>>
m_vars == <<pr_file, m_world, tier_files, tier_counters, total_instances, seen_prs, m_pc,
           m_ix, m_instance, m_run, m_out, m_len0, assembled, assembled_now>>
ds_vars == <<id_vars, h_vars, p_vars, m_vars>>
vars == <<bfs_vars, ca_vars, ver_vars, gl_vars, ds_vars>>

None == "None"
\* Python's None where a star count is expected (star counts are >= 0)
NoStars == 0 - 1

(***************************************************************************)
(* Program constants.                                                      *)
(***************************************************************************)
ResultCap == 1000
UnboundedStep == 5000
per_page == 100
max_pages == 10
RateLimitStatus == 403
OkStatus == 200

(***************************************************************************)
(* Bounds of the model.                                                    *)
(***************************************************************************)
MaxReq == 4       \* nreq counts up to here and stays
Light == 150      \* a star value with few repositories (two pages)
Heavy == 1001     \* a star value with more repositories than the cap
SeedHigh == 4     \* the bounded stars_max a crawl may be seeded with

(***************************************************************************)
(* load_tokens: the non-blank lines of the file, stripped; an empty list   *)
(* raises ValueError, otherwise itertools.cycle over the list.             *)
(***************************************************************************)
TokenFiles == {<<>>, <<"">>, <<"tokA">>, <<"tokA", "", "tokB">>,
               <<"tokB", "tokB">>}

StripLines(lines) == SelectSeq(lines, LAMBDA l : l # "")

load_tokens(lines) ==
    LET tokens == StripLines(lines)
    IN  [raised |-> IF tokens = <<>> THEN "ValueError" ELSE None,
         tokens |-> tokens, pos |-> 1]

\* mutant: the cursor goes back to the first token after every request
CycleAdvance_reset(c) == [c EXCEPT !.pos = 1]
\* next(token_cycle): the token handed out and the cycle after it
CycleAdvance(c) == [c EXCEPT !.pos = (c.pos % Len(c.tokens)) + 1]
CycleToken(c) == c.tokens[c.pos]

(***************************************************************************)
(* make_query: the language term and the stars term.                       *)
(***************************************************************************)
make_query(language, stars_min, stars_max) ==
    [language |-> language,
     stars |-> IF stars_min # NoStars /\ stars_max # NoStars
                 THEN <<"range", stars_min, stars_max>>
               ELSE IF stars_min # NoStars THEN <<"ge", stars_min>>
               ELSE IF stars_max # NoStars THEN <<"le", stars_max>>
               ELSE <<"any">>]

(***************************************************************************)
(* The remote search endpoint, for data that does not change in a crawl.   *)
(***************************************************************************)
StarPoints == {2, UnboundedStep + 2}
Weights == {0, Light, Heavy}
Worlds == [StarPoints -> Weights]

Matches(q, s) ==
    CASE q.stars[1] = "range" -> q.stars[2] <= s /\ s <= q.stars[3]
      [] q.stars[1] = "ge" -> q.stars[2] <= s
      [] q.stars[1] = "le" -> s <= q.stars[2]
      [] OTHER -> TRUE

RECURSIVE SumOver(_, _)
SumOver(f, S) ==
    IF S = {} THEN 0
    ELSE LET x == CHOOSE y \in S : TRUE IN f[x] + SumOver(f, S \ {x})

\* total_count of the search response
RemoteTotal(world, q) ==
    SumOver(world, {s \in StarPoints : Matches(q, s) /\ world[s] > 0})

\* the matching star values, sort=stars order=desc
RECURSIVE SortDesc(_)
SortDesc(S) ==
    IF S = {} THEN <<>>
    ELSE LET m == CHOOSE x \in S : \A y \in S : y <= x
         IN  <<m>> \o SortDesc(S \ {m})

Min(a, b) == IF a < b THEN a ELSE b
Max(a, b) == IF a > b THEN a ELSE b

\* Items are kept as runs <<star, first, last>>: the repositories number
\* first..last (in the remote's order) among those with that star value.
RECURSIVE RunsIn(_, _, _, _, _)
RunsIn(world, stars, offset, from, to) ==
    IF stars = <<>> THEN <<>>
    ELSE LET s == Head(stars)
             lo == Max(from, offset + 1)
             hi == Min(to, offset + world[s])
             rest == RunsIn(world, Tail(stars), offset + world[s], from, to)
         IN  IF lo <= hi THEN <<<<s, lo - offset, hi - offset>>>> \o rest
             ELSE rest

\* "items" of the search response for page p
RemoteItems(world, q, p) ==
    RunsIn(world,
           SortDesc({s \in StarPoints : Matches(q, s) /\ world[s] > 0}),
           0, (p - 1) * per_page + 1, p * per_page)

RECURSIVE ItemCount(_)
ItemCount(runs) ==
    IF runs = <<>> THEN 0
    ELSE (Head(runs)[3] - Head(runs)[2] + 1) + ItemCount(Tail(runs))

(***************************************************************************)
(* One pass of the while loop of github_api_request: the next token of the *)
(* cycle goes into the Authorization header, session.get answers (or       *)
(* raises), 403 sleeps and goes round again, raise_for_status raises for   *)
(* the other error statuses, anything else returns resp.json().            *)
(* A response is [raised, status_code]: raised when session.get itself     *)
(* raised (connection error, timeout), else the status code it answered.   *)
(***************************************************************************)
TransportFailure == [raised |-> TRUE, status_code |-> 0]
Http(status) == [raised |-> FALSE, status_code |-> status]
Responses == {Http(OkStatus), Http(RateLimitStatus), Http(500),
              TransportFailure}
NoResponse == [raised |-> FALSE, status_code |-> 0]

raise_for_status(status) == status >= 400 /\ status < 600

\* mutant: raise_for_status comes before the test for 403
github_api_request_raise403(resp) ==
    IF resp.raised THEN "raise"
    ELSE IF raise_for_status(resp.status_code) THEN "raise"
    ELSE "return"

\* "retry": the loop goes round; "raise": an exception leaves the function;
\* "return": the body is returned
github_api_request(resp) ==
    IF resp.raised THEN "raise"
    ELSE IF resp.status_code = RateLimitStatus THEN "retry"
    ELSE IF raise_for_status(resp.status_code) THEN "raise"
    ELSE "return"

\* the bookkeeping of one session.get: the token used, the cycle after it
Bump(n) == IF n <= MaxReq THEN n + 1 ELSE n

SendRequest(resp, phase) ==
    /\ token_cycle' = CycleAdvance(token_cycle)
    /\ nreq' = Bump(nreq)
    /\ last_req' = [token |-> CycleToken(token_cycle), status |-> resp,
                    phase |-> phase, par |-> 1 - last_req.par]

(***************************************************************************)
(* bfs_star_range                                                          *)
(***************************************************************************)
Language == "Python"

\* queue = [(stars_min if stars_min is not None else 0, stars_max)]
SeedQueue(stars_min, stars_max) ==
    << <<IF stars_min # NoStars THEN stars_min ELSE 0, stars_max>> >>

\* mutant: the second sub-range starts at mid (the boundary value twice)
SplitRange_overlap(s_min, s_max) ==
    LET mid == IF s_max = NoStars THEN s_min + UnboundedStep
               ELSE (s_min + s_max) \div 2
    IN  IF mid <= s_min THEN <<>>
        ELSE << <<s_min, mid>>, <<mid, s_max>> >>

\* mutant: no guard on mid
SplitRange_noguard(s_min, s_max) ==
    LET mid == IF s_max = NoStars THEN s_min + UnboundedStep
               ELSE (s_min + s_max) \div 2
    IN  << <<s_min, mid>>, <<mid + 1, s_max>> >>

\* mutant: the second sub-range starts at mid + 2 (mid + 1 is lost)
SplitRange_gap(s_min, s_max) ==
    LET mid == IF s_max = NoStars THEN s_min + UnboundedStep
               ELSE (s_min + s_max) \div 2
    IN  IF mid <= s_min THEN <<>>
        ELSE << <<s_min, mid>>, <<mid + 2, s_max>> >>

\* lines 108-121: the ranges a range with more than 1000 matches is
\* replaced by; none when mid <= s_min
SplitRange(s_min, s_max) ==
    IF s_max = NoStars
      THEN LET mid == s_min + UnboundedStep
           IN  IF mid <= s_min THEN <<>>
               ELSE << <<s_min, mid>>, <<mid + 1, NoStars>> >>
      ELSE LET mid == (s_min + s_max) \div 2
           IN  IF mid <= s_min THEN <<>>
               ELSE << <<s_min, mid>>, <<mid + 1, s_max>> >>

\* mutant: a range whose count query failed is appended again
OnCountException_requeue(q, r) == [pc |-> "loop", queue |-> Append(q, r)]
\* mutant: a range whose pagination failed is appended twice
OnFetchException_twice(q, r) == [pc |-> "loop", queue |-> Append(Append(q, r), r)]
\* mutant: the pages read before the failure are kept
ReposOnRaise_partial(results, fetched) == results \o fetched
\* lines 124-125: the exception leaves fetch_repos_in_range, so the
\* assignment to repos and all_results.extend(repos) are not reached
ReposOnRaise(results, fetched) == results
\* mutant: the count query is not inside a try
OnCountException_propagate(q, r) == [pc |-> "raised", queue |-> q]
\* mutant: the range is not appended again
OnFetchException_drop(q, r) == [pc |-> "loop", queue |-> q]
\* the except clause of the count query (lines 101-103): log, continue
OnCountException(q, r) == [pc |-> "loop", queue |-> q]
\* the except clause around fetch_repos_in_range (lines 126-129): log,
\* queue.append((s_min, s_max)), continue
OnFetchException(q, r) == [pc |-> "loop", queue |-> Append(q, r)]

Discard == discarded' = discarded \cup {cur} /\ UNCHANGED paginated
Paginated == paginated' = paginated \cup {cur} /\ UNCHANGED discarded
history == <<paginated, discarded>>

\* mutant: the for loop has no last page
MorePages_nolimit(items, page_no) ==
    items # <<>> /\ ~(ItemCount(items) < per_page)
\* fetch_repos_in_range, lines 64, 74-75, 80-81: whether the for loop goes
\* on to the next page
MorePages(items, page_no) ==
    items # <<>> /\ ~(ItemCount(items) < per_page) /\ page_no < max_pages

\* while queue: s_min, s_max = queue.pop(0)
Pop ==
    /\ pc = "loop" /\ queue # <<>>
    /\ cur' = Head(queue)
    /\ queue' = Tail(queue)
    /\ pc' = "count"
    /\ UNCHANGED <<seed, repos, token_cycle, page, all_items, all_results,
                   nreq, last_req, history, ca_vars, ver_vars, gl_vars,
                   ds_vars>>

\* the worklist is empty: return all_results
Return ==
    /\ pc = "loop" /\ queue = <<>>
    /\ pc' = "done"
    /\ UNCHANGED <<seed, repos, token_cycle, queue, cur, page, all_items,
                   all_results, nreq, last_req, history, ca_vars, ver_vars, gl_vars,
                   ds_vars>>

\* get_total_count inside the first try, then lines 105-121
CountRequest ==
    /\ pc = "count"
    /\ \E resp \in Responses :
         LET q == make_query(Language, cur[1], cur[2])
             outcome == github_api_request(resp)
             total_count == RemoteTotal(repos, q)
         IN  /\ SendRequest(resp, "count")
             /\ CASE outcome = "retry" ->
                       UNCHANGED <<pc, queue, page, all_items, history>>
                  [] outcome = "raise" ->
                       /\ pc' = OnCountException(queue, cur).pc
                       /\ queue' = OnCountException(queue, cur).queue
                       /\ Discard
                       /\ UNCHANGED <<page, all_items>>
                  [] outcome = "return" /\ total_count = 0 ->
                       /\ pc' = "loop"
                       /\ Discard
                       /\ UNCHANGED <<queue, page, all_items>>
                  [] outcome = "return" /\ total_count > ResultCap ->
                       /\ pc' = "loop"
                       /\ queue' = queue \o SplitRange(cur[1], cur[2])
                       /\ IF SplitRange(cur[1], cur[2]) = <<>>
                            THEN Discard ELSE UNCHANGED history
                       /\ UNCHANGED <<page, all_items>>
                  [] OTHER ->
                       /\ pc' = "page"
                       /\ page' = 1
                       /\ all_items' = <<>>
                       /\ UNCHANGED <<queue, history>>
    /\ UNCHANGED <<seed, repos, cur, all_results, ca_vars, ver_vars, gl_vars,
                   ds_vars>>

\* one pass of the for loop of fetch_repos_in_range, inside the second try;
\* when the loop ends, all_results.extend(repos)
PageRequest ==
    /\ pc = "page"
    /\ \E resp \in Responses :
         LET q == make_query(Language, cur[1], cur[2])
             outcome == github_api_request(resp)
             items == RemoteItems(repos, q, page)
             more == MorePages(items, page)
         IN  /\ SendRequest(resp, "page")
             /\ CASE outcome = "retry" ->
                       UNCHANGED <<pc, queue, page, all_items, all_results,
                                   history>>
                  [] outcome = "raise" ->
                       /\ pc' = OnFetchException(queue, cur).pc
                       /\ queue' = OnFetchException(queue, cur).queue
                       /\ all_results' = ReposOnRaise(all_results, all_items)
                       /\ UNCHANGED <<page, all_items, history>>
                  [] outcome = "return" /\ more ->
                       /\ page' = page + 1
                       /\ all_items' = all_items \o items
                       /\ UNCHANGED <<pc, queue, all_results, history>>
                  [] OTHER ->
                       /\ pc' = "loop"
                       /\ all_results' = all_results \o all_items \o items
                       /\ Paginated
                       /\ UNCHANGED <<queue, page, all_items>>
    /\ UNCHANGED <<seed, repos, cur, ca_vars, ver_vars, gl_vars,
                   ds_vars>>

(***************************************************************************)
(* Repo.call_api (utils.py).  A requests.post either raises (a connection  *)
(* error, a timeout: a RequestException) or answers with a status code, a  *)
(* body and the x-ratelimit-remaining header, which is a string.           *)
(* response.json() raises requests' JSONDecodeError, a RequestException    *)
(* too, when the body is not JSON.                                         *)
(***************************************************************************)
max_retries == 10
RetryDelay == 20
LowWater == 1000
LowWaterPause == 600
LowerWater == 100
LowerWaterPause == 3600

Bodies == {"data", "nodata", "notjson"}
HeaderValues == {"0", "50", "99", "100", "500", "999", "1000", "5000"}
PostStatuses == {OkStatus, RateLimitStatus, 404, 502}
\* what requests.post may produce; a 200 answer of the endpoint is JSON,
\* an error answer (a gateway's 502 page) need not be
PostResponses ==
    {r \in [raised : {FALSE}, status_code : PostStatuses, body : Bodies,
            remaining : HeaderValues] :
        r.status_code = OkStatus => r.body # "notjson"}
    \cup {[raised |-> TRUE, status_code |-> 0, body |-> "notjson",
           remaining |-> "0"]}
NoPost == [raised |-> FALSE, status_code |-> 0, body |-> "notjson",
           remaining |-> "0"]

\* int(header)
ParseInt(h) ==
    CASE h = "0" -> 0 [] h = "50" -> 50 [] h = "99" -> 99 [] h = "100" -> 100
      [] h = "500" -> 500 [] h = "999" -> 999 [] h = "1000" -> 1000
      [] h = "5000" -> 5000

\* mutant: the first wait also at 1000 remaining calls
QuotaPause_inclusive(rl) ==
    (IF rl <= LowWater THEN LowWaterPause ELSE 0)
      + (IF rl < LowerWater THEN LowerWaterPause ELSE 0)
\* the two waits of lines 141-146
QuotaPause(rl) ==
    (IF rl < LowWater THEN LowWaterPause ELSE 0)
      + (IF rl < LowerWater THEN LowerWaterPause ELSE 0)

\* What one pass of the while loop does with what requests.post produced:
\*   "caught"  an exception of the first except clause (lines 160-167)
\*   "return"  return response (line 148)
\*   "raise"   an exception no clause catches leaves call_api
\* The 403 branch compares the header, a string (or None), with 0:
\* Python raises TypeError there (line 155).
call_api_pass(resp) ==
    IF resp.raised THEN [kind |-> "caught", exc |-> "RequestException", pause |-> 0]
    ELSE IF resp.status_code = OkStatus
      THEN IF resp.body = "notjson"
             THEN [kind |-> "caught", exc |-> "JSONDecodeError", pause |-> 0]
           ELSE IF resp.body = "data"
             THEN [kind |-> "return", exc |-> None,
                   pause |-> QuotaPause(ParseInt(resp.remaining))]
           ELSE [kind |-> "raise", exc |-> "Exception",
                 pause |-> QuotaPause(ParseInt(resp.remaining))]
    ELSE IF resp.status_code = RateLimitStatus
      THEN [kind |-> "raise", exc |-> "TypeError", pause |-> 0]
    ELSE IF resp.body = "notjson"
      THEN [kind |-> "caught", exc |-> "JSONDecodeError", pause |-> 0]
    ELSE [kind |-> "raise", exc |-> "Exception", pause |-> 0]

NoResult == [kind |-> "none", exc |-> None]
Sentinel == [kind |-> "return_None", exc |-> None]

(***************************************************************************)
(* call_api as its callers see it: the passes of the while loop over what  *)
(* the successive requests.post produce, until one returns or raises.      *)
(***************************************************************************)
RECURSIVE call_api_from(_, _)
call_api_from(posts, attempt) ==
    IF posts = <<>>
      THEN [kind |-> "running", exc |-> None, response |-> NoPost]
    ELSE LET out == call_api_pass(Head(posts))
         IN  IF out.kind = "caught"
               THEN IF attempt < max_retries - 1
                      THEN call_api_from(Tail(posts), attempt + 1)
                    ELSE [kind |-> "return_None", exc |-> None,
                          response |-> NoPost]
             ELSE IF out.kind = "return"
               THEN [kind |-> "return_response", exc |-> None,
                     response |-> Head(posts)]
             ELSE [kind |-> "raise", exc |-> out.exc, response |-> NoPost]

call_api(posts) == call_api_from(posts, 0)

PostFailure == [raised |-> TRUE, status_code |-> 0, body |-> "notjson",
                remaining |-> "0"]
Answer(status, body, remaining) ==
    [raised |-> FALSE, status_code |-> status, body |-> body,
     remaining |-> remaining]

\* what the requests.post of one call may produce, one after the other
ApiScripts ==
    {<<Answer(OkStatus, "data", h)>> : h \in {"0", "5000"}}
    \cup {<<PostFailure, Answer(OkStatus, "data", "5000")>>,
          [i \in 1..max_retries |-> PostFailure],
          <<Answer(RateLimitStatus, "nodata", "0")>>,
          <<Answer(502, "nodata", "5000")>>,
          <<Answer(OkStatus, "nodata", "5000")>>}

Outcome(out) == [kind |-> out.kind, exc |-> out.exc]

\* the token a Repo is constructed with
RepoTokens == {"tokA", "tokB"}

(***************************************************************************)
(* The remote repository of a Repo: its commits with their committedDate,  *)
(* and its tag refs.  A tag name is the sequence of its characters.        *)
(***************************************************************************)
MaxRefs == 2      \* tag refs of the remote repository
MaxCalls == 2     \* calls of get_version_at_commit on one Repo

NoDate == "None"
\* committedDate of object(oid); c0 is no commit (object is null or is not
\* a Commit)
CommitDate(oid) ==
    CASE oid = "c1" -> "2024-01-01T00:00:00Z"
      [] oid = "c2" -> "2024-01-09T00:00:00Z"
      [] oid = "c3" -> "2024-01-11T00:00:00Z"
      [] oid = "c4" -> "2024-01-13T00:00:00Z"
      [] oid = "c5" -> "2024-01-21T00:00:00Z"
      [] OTHER -> NoDate

\* parser.parse(date).timestamp(), in days since 2023-12-31
ParseDate(date) ==
    CASE date = "2024-01-01T00:00:00Z" -> 1
      [] date = "2024-01-09T00:00:00Z" -> 9
      [] date = "2024-01-11T00:00:00Z" -> 11
      [] date = "2024-01-13T00:00:00Z" -> 13
      [] date = "2024-01-21T00:00:00Z" -> 21

Ref(name, oid) == [name |-> name, oid |-> oid]
RefPool ==
    {Ref(<<"v", "2", ".", "5", ".", "1">>, "c1"),
     Ref(<<"r", "c", "1">>, "c1"),
     Ref(<<"1", ".", "0">>, "c2"),
     Ref(<<"v", "3", ".", "1", "0">>, "c4"),
     Ref(<<"n", "i", "g", "h", "t", "l", "y">>, "c5"),
     Ref(<<"x", "7", ".", "7">>, "c0")}
\* the listings: up to MaxRefs refs, no ref twice
RefLists ==
    {l \in UNION {[1..n -> RefPool] : n \in 0..MaxRefs} :
        \A i, j \in 1..Len(l) : i # j => l[i] # l[j]}
\* the commits version resolution is asked for
Shas == {"c1", "c3", "c0"}

(***************************************************************************)
(* re.search(r"(\d+\.\d+)(?:\.\d+)?", tag_name).group(1): the leftmost     *)
(* place where digits, a dot and digits follow one another; both runs of   *)
(* digits as long as they go.  <<>> when there is no match.                *)
(***************************************************************************)
IsDigit(c) == c \in {"0", "1", "2", "3", "4", "5", "6", "7", "8", "9"}

\* the last position of the run of digits of s that starts at i
RECURSIVE DigitsEnd(_, _)
DigitsEnd(s, i) ==
    IF i <= Len(s) /\ IsDigit(s[i]) THEN DigitsEnd(s, i + 1) ELSE i - 1

MatchAt(s, i) ==
    LET j == DigitsEnd(s, i)
        k == DigitsEnd(s, j + 2)
    IN  IF j >= i /\ j + 1 <= Len(s) /\ s[j + 1] = "." /\ k >= j + 2
          THEN SubSeq(s, i, k)
        ELSE <<>>

RECURSIVE SearchFrom(_, _)
SearchFrom(s, i) ==
    IF i > Len(s) THEN <<>>
    ELSE IF MatchAt(s, i) # <<>> THEN MatchAt(s, i)
    ELSE SearchFrom(s, i + 1)

major_minor(tag_name) == SearchFrom(tag_name, 1)

(***************************************************************************)
(* The tag cache.  self._tags_cache is None or a list of [name, oid, date].*)
(***************************************************************************)
NoCache == [none |-> TRUE, tags |-> <<>>]
List(tags) == [none |-> FALSE, tags |-> tags]
\* "if self._tags_cache:"
Truthy(cache) == ~cache.none /\ cache.tags # <<>>

\* mutant: the loaded flag is not looked at
SkipLoad_never(loaded) == FALSE
\* lines 50-51: if self._tags_cache_loaded: return
SkipLoad(loaded) == loaded

\* mutant: the except clause keeps the list built so far
OnLoadException_keep(cache) == [cache |-> cache, loaded |-> TRUE]
\* lines 119-122: the except clause of _load_tags_cache
OnLoadException(cache) == [cache |-> List(<<>>), loaded |-> TRUE]

\* list.sort(key=lambda x: parser.parse(x["date"]), reverse=True): stable,
\* a tag goes behind the tags that are not older
RECURSIVE InsertTag(_, _)
InsertTag(sorted, t) ==
    IF sorted = <<>> THEN <<t>>
    ELSE IF ParseDate(Head(sorted).date) >= ParseDate(t.date)
      THEN <<Head(sorted)>> \o InsertTag(Tail(sorted), t)
    ELSE <<t>> \o sorted

RECURSIVE SortTags(_)
SortTags(tags) ==
    IF tags = <<>> THEN <<>>
    ELSE InsertTag(SortTags(SubSeq(tags, 1, Len(tags) - 1)), tags[Len(tags)])

Abs(n) == IF n < 0 THEN 0 - n ELSE n
Distance(tag, commit_date) ==
    Abs(ParseDate(tag.date) - ParseDate(commit_date))

\* mutant: of the tags equally near, the last one
closest_tag_last(tags, commit_date) ==
    LET i == CHOOSE i \in 1..Len(tags) :
                 /\ \A j \in 1..Len(tags) :
                      Distance(tags[i], commit_date)
                          <= Distance(tags[j], commit_date)
                 /\ \A j \in (i + 1)..Len(tags) :
                      Distance(tags[i], commit_date)
                          < Distance(tags[j], commit_date)
    IN  tags[i]
\* line 283: min(self._tags_cache, key=lambda x: abs(... - commit_timestamp))
\* gives the first of the tags with the least key
closest_tag(tags, commit_date) ==
    LET i == CHOOSE i \in 1..Len(tags) :
                 /\ \A j \in 1..Len(tags) :
                      Distance(tags[i], commit_date)
                          <= Distance(tags[j], commit_date)
                 /\ \A j \in 1..(i - 1) :
                      Distance(tags[j], commit_date)
                          > Distance(tags[i], commit_date)
    IN  tags[i]

NotFound == [raised |-> FALSE, found |-> FALSE, version |-> <<>>]
Found(version) == [raised |-> FALSE, found |-> TRUE, version |-> version]

\* lines 256-318 of get_version_at_commit: the exact match, else the tag
\* nearest by date and the newest tag
Resolve(cache, commit_sha, commit_date) ==
    IF Truthy(cache)
      THEN LET matching_tags ==
                   SelectSeq(cache.tags, LAMBDA tag : tag.oid = commit_sha)
           IN  IF matching_tags # <<>>
                 THEN IF major_minor(matching_tags[1].name) # <<>>
                        THEN Found(major_minor(matching_tags[1].name))
                      ELSE NotFound
               ELSE IF commit_date # NoDate
                         /\ major_minor(closest_tag(cache.tags,
                                                    commit_date).name) # <<>>
                 THEN Found(major_minor(closest_tag(cache.tags,
                                                    commit_date).name))
               ELSE IF major_minor(cache.tags[1].name) # <<>>
                 THEN Found(major_minor(cache.tags[1].name))
               ELSE NotFound
    ELSE NotFound

DefaultVersion == <<"0", ".", "0">>
\* mutant: the version as get_version_at_commit gave it
create_instance_version_raw(res) == res.version
\* build_dataset.py lines 46-50 and 67: version stays None when the call
\* raised; "version if version else '0.0'"
create_instance_version(res) ==
    IF res.raised THEN DefaultVersion
    ELSE IF res.found /\ res.version # <<>> THEN res.version
    ELSE DefaultVersion

NoInstance == [made |-> FALSE, version |-> <<>>]

VerIdle ==
    /\ refs = <<>> /\ tags_cache = NoCache /\ tags_cache_loaded = FALSE
    /\ v_pc = "idle" /\ v_sha = None /\ v_i = 0 /\ v_out = NoResult
    /\ v_commit_date = NoDate /\ v_result = NotFound
    /\ calls = 0 /\ listings = 0 /\ tag_reqs = 0
    /\ abandoned = [raised |-> FALSE, tags |-> <<>>]
    /\ instance = NoInstance

(***************************************************************************)
(* The remote connection get_all_loop pages through: the page served for   *)
(* the cursor after is page after + 1, its endCursor is after + 1; behind  *)
(* the last page there is an empty one.  A node is <<page, number>>.       *)
(***************************************************************************)
MaxGqlPages == 2  \* pages of the remote connection
MaxPolls == 2     \* gl_polls counts up to here and stays

GqlPage(nodes, hasNextPage) == [nodes |-> nodes, hasNextPage |-> hasNextPage]
GqlWorlds ==
    [1..MaxGqlPages ->
        {GqlPage(n, h) : n \in {0, 2}, h \in BOOLEAN}]
\* the page of the response to a request with the cursor after
PageAfter(world, after) ==
    IF after + 1 \in DOMAIN world
      THEN [nodes |-> [i \in 1..world[after + 1].nodes |-> <<after + 1, i>>],
            hasNextPage |-> world[after + 1].hasNextPage,
            endCursor |-> after + 1]
    ELSE [nodes |-> <<>>, hasNextPage |-> FALSE, endCursor |-> after]

Unbound == [bound |-> FALSE, none |-> FALSE, remaining |-> "0"]
BoundNone == [bound |-> TRUE, none |-> TRUE, remaining |-> "0"]
BoundTo(resp) == [bound |-> TRUE, none |-> FALSE, remaining |-> resp.remaining]

\* lines 369-382, the except clause of get_all_loop: it reads the header of
\* the local variable response, whatever that is bound to
\*   "raise"  the clause itself raises (response is unbound or None)
\*   "retry"  the header is positive: the while loop goes round
\*   "wait"   sleep 5 minutes and read the same header again
OnPageException(response) ==
    IF ~response.bound THEN [pc |-> "raised", exc |-> "UnboundLocalError"]
    ELSE IF response.none THEN [pc |-> "raised", exc |-> "AttributeError"]
    ELSE IF ParseInt(response.remaining) > 0 THEN [pc |-> "request", exc |-> None]
    ELSE [pc |-> "wait", exc |-> None]

\* mutant: the page limit stops the loop one page late
LastPage_late(data, page_no, num_pages) ==
    \/ num_pages # 0 /\ page_no > num_pages
    \/ ~data.hasNextPage
\* mutant: the page limit is not looked at
LastPage_nolimit(data, page_no, num_pages) == ~data.hasNextPage
\* lines 362-365: the two breaks after a page was yielded (num_pages = 0
\* stands for None)
LastPage(data, page_no, num_pages) ==
    \/ num_pages # 0 /\ page_no >= num_pages
    \/ ~data.hasNextPage

GlIdle ==
    /\ gl_pc = "idle" /\ gl_world = [i \in 1..MaxGqlPages |-> GqlPage(0, FALSE)]
    /\ gl_num_pages = 0 /\ gl_after = 0 /\ gl_page = 0
    /\ gl_yielded = <<>> /\ gl_response = Unbound /\ gl_out = NoResult
    /\ gl_polls = 0

(***************************************************************************)
(* build_dataset.py: the instance id.  Names are tuples of characters.     *)
(***************************************************************************)
FullNames ==
    {<<"a", "/", "b">>,
     <<"a", "_", "/", "b">>,
     <<"a", "/", "_", "b">>,
     <<"a", "/", "b", "1">>,
     <<"a", "/", "b", "-", "1">>}
PullNumbers == {1, 2, 12}
Pulls == {[full_name |-> f, number |-> n] : f \in FullNames, n \in PullNumbers}

DecimalDigits == <<"0", "1", "2", "3", "4", "5", "6", "7", "8", "9">>
\* str(n) of a non-negative int
RECURSIVE Str(_)
Str(n) ==
    IF n < 10 THEN <<DecimalDigits[n + 1]>>
    ELSE Str(n \div 10) \o <<DecimalDigits[(n % 10) + 1]>>

\* s.replace(old, new) for a single character old
RECURSIVE Replace(_, _, _)
Replace(s, old, new) ==
    IF s = <<>> THEN <<>>
    ELSE (IF Head(s) = old THEN new ELSE <<Head(s)>>)
             \o Replace(Tail(s), old, new)

\* mutant: the name and the number are not separated
instance_id_nodash(full_name, number) ==
    Replace(full_name \o Str(number), "/", <<"_", "_">>)
\* lines 55-57 and 137-140
instance_id(full_name, number) ==
    Replace(full_name \o <<"-">> \o Str(number), "/", <<"_", "_">>)

NoIds == <<>>
IdIdle == id_pulls = <<>> /\ id_out = NoIds

(***************************************************************************)
(* utils.py, _extract_hints.  Times are hours of 2024-01-01.               *)
(***************************************************************************)
MaxComments == 2  \* comments of the issue
\* time.strptime(s, "%Y-%m-%dT%H:%M:%SZ"): the hour field of the struct
UpdatedAts ==
    {"2024-01-01T06:00:00Z", "2024-01-01T10:00:00Z", "2024-01-01T12:00:00Z",
     "2024-01-01T20:00:00Z"}
strptime(s) ==
    CASE s = "2024-01-01T06:00:00Z" -> 6
      [] s = "2024-01-01T10:00:00Z" -> 10
      [] s = "2024-01-01T12:00:00Z" -> 12
      [] s = "2024-01-01T20:00:00Z" -> 20
\* time.mktime(t): t is read as local time, so the epoch value is the wall
\* clock minus the local UTC offset
mktime(t, utcoffset) == t - utcoffset
\* dateutil's parser.parse(s): an aware datetime [hour, utcoffset]
AuthorDates ==
    {"2024-01-01T10:00:00Z", "2024-01-01T12:00:00Z",
     "2024-01-01T18:00:00+08:00"}
parse(s) ==
    CASE s = "2024-01-01T10:00:00Z" -> [hour |-> 10, utcoffset |-> 0]
      [] s = "2024-01-01T12:00:00Z" -> [hour |-> 12, utcoffset |-> 0]
      [] s = "2024-01-01T18:00:00+08:00" -> [hour |-> 18, utcoffset |-> 8]
\* datetime.timestamp() of an aware datetime
timestamp(dt) == dt.hour - dt.utcoffset
\* the time zones the process may run in
LocalOffsets == {0 - 5, 0, 8}

Comment(updatedAt, body) == [updatedAt |-> updatedAt, body |-> body]
CommentBodies == <<"first comment", "second comment", "third comment",
              "fourth comment">>
CommentLists ==
    UNION {[1..n -> UpdatedAts] : n \in 0..MaxComments}

\* "\n".join(parts), the parts kept whole
RECURSIVE Join(_)
Join(parts) ==
    IF parts = <<>> THEN <<>>
    ELSE IF Len(parts) = 1 THEN parts
    ELSE <<Head(parts), "\n">> \o Join(Tail(parts))

\* lines 584-591: the comments updated before the first commit
BeforeCommit(comments, commit_time, utcoffset) ==
    SelectSeq(comments,
              LAMBDA c : mktime(strptime(c.updatedAt), utcoffset) < commit_time)
BodiesOf(comments) == [i \in 1..Len(comments) |-> comments[i].body]
\* lines 562-598, without the commit urls
extract_hints(commits, comments, utcoffset) ==
    IF Len(commits) = 0 THEN [hints |-> <<>>, all |-> <<>>]
    ELSE LET commit_time == timestamp(parse(commits[1]))
         IN  [hints |-> Join(BodiesOf(BeforeCommit(comments, commit_time,
                                                    utcoffset))),
              all |-> Join(BodiesOf(comments))]

NoHints == [hints |-> <<"None">>, all |-> <<"None">>]
HIdle ==
    /\ h_tz = 0 /\ h_commits = <<>> /\ h_comments = <<>> /\ h_out = NoHints

(***************************************************************************)
(* utils.py, extract_patches.  Paths are tuples of characters.             *)
(***************************************************************************)
MaxFiles == 3  \* files of a diff
Paths ==
    {<<"a", ".", "c">>,
     <<"t", "e", "s", "t", "/", "a", ".", "c">>,
     <<"b", "/", "t", "e", "s", "t", "s", "/", "c">>,
     <<"e", "2", "e", "/", "a">>,
     <<"l", "a", "t", "e", "s", "t", ".", "c">>,
     <<"t", "e", "s", "/", "t", ".", "c">>}
\* line 637, the words looked for in a path
test_words ==
    <<<<"t", "e", "s", "t">>, <<"t", "e", "s", "t", "s">>,
      <<"e", "2", "e">>, <<"t", "e", "s", "t", "i", "n", "g">>>>

\* mutant: the word is looked for at the start of the path only
InPath_prefix(word, path) ==
    Len(word) <= Len(path) /\ SubSeq(path, 1, Len(word)) = word
\* Python's  word in path  for two strings
InPath(word, path) ==
    \E i \in 1..(Len(path) - Len(word) + 1) :
        SubSeq(path, i, i + Len(word) - 1) = word
\* line 637: any(test_word in hunk.path for test_word in [...])
IsTestPath(path) == \E k \in 1..Len(test_words) : InPath(test_words[k], path)

\* PatchSet(patch): the files of the diff in order, each with its path and
\* the text str() gives back for it
PatchedFile(path) == [path |-> path, text |-> <<"diff --git", path>>]
Diffs ==
    {d \in UNION {[1..n -> Paths] : n \in 0..MaxFiles} :
        \A i, j \in 1..Len(d) : i # j => d[i] # d[j]}
PatchSet(d) == [i \in 1..Len(d) |-> PatchedFile(d[i])]

\* lines 634-643: the loop over the files, from the file at index i on
RECURSIVE extract_patches_from(_, _, _, _)
extract_patches_from(files, i, patch_fix, patch_test) ==
    IF i > Len(files) THEN [patch_fix |-> patch_fix, patch_test |-> patch_test]
    ELSE IF IsTestPath(files[i].path)
      THEN extract_patches_from(files, i + 1, patch_fix,
                                patch_test \o <<files[i].text>>)
    ELSE extract_patches_from(files, i + 1, patch_fix \o <<files[i].text>>,
                              patch_test)
extract_patches(files) == extract_patches_from(files, 1, <<>>, <<>>)

NoPatches == [patch_fix |-> <<"None">>, patch_test |-> <<"None">>]
PIdle == p_diff = <<>> /\ p_out = NoPatches

(***************************************************************************)
(* build_dataset.py, main, and filter_instances.py.                        *)
(***************************************************************************)
MaxLines == 2  \* lines of the pull file
MaxRuns == 2   \* runs of main over the same pull file and output
MediumMaxLines == 1000
MediumMaxFiles == 10
HighMaxLines == 500
HighMaxFiles == 5

\* what a pull holds: whether it is merged with a resolved issue, the size
\* of the non-test part of its diff, whether the diff has test files
PullData(merged, lines, file_count, tests) ==
    [merged |-> merged, lines |-> lines, file_count |-> file_count,
     tests |-> tests]
PullKinds ==
    {PullData(TRUE, 40, 2, TRUE), PullData(TRUE, 40, 6, TRUE),
     PullData(TRUE, 501, 2, TRUE), PullData(TRUE, 1001, 2, TRUE),
     PullData(TRUE, 40, 2, FALSE), PullData(FALSE, 40, 2, TRUE)}
MainNumbers == {1, 2}
MainRepo == <<"o", "/", "r">>
PrFiles == UNION {[1..n -> MainNumbers] : n \in 1..MaxLines}

\* filter_instances.py, lines 3-16
is_valid_pull(pull) == pull.merged

\* a patch: its newline count, its "diff --git a/" count, whether one of
\* its files has the suffix of the language
Patch(lines, file_count, code) ==
    [lines |-> lines, file_count |-> file_count, code |-> code]
BlankPatch == Patch(0, 0, FALSE)
\* create_instance, lines 42-69: the record for a pull
create_instance(number, pull) ==
    [instance_id |-> instance_id(MainRepo, number),
     patch |-> Patch(pull.lines, pull.file_count, TRUE),
     test_patch |-> IF pull.tests THEN Patch(12, 1, TRUE) ELSE BlankPatch,
     problem_statement |-> "text"]
NoRecord ==
    [instance_id |-> <<>>, patch |-> BlankPatch, test_patch |-> BlankPatch,
     problem_statement |-> ""]

\* filter_instances.py, lines 58-75
is_valid_instance_base(inst) ==
    /\ inst.patch # BlankPatch
    /\ inst.test_patch # BlankPatch
    /\ inst.problem_statement # ""
    /\ inst.patch.code /\ inst.test_patch.code
\* filter_instances.py, lines 77-90
is_valid_instance_medium(inst) ==
    /\ ~(inst.patch.lines > MediumMaxLines)
    /\ ~(inst.patch.file_count > MediumMaxFiles)
\* filter_instances.py, lines 92-105
is_valid_instance_high(inst) ==
    /\ ~(inst.patch.lines > HighMaxLines)
    /\ ~(inst.patch.file_count > HighMaxFiles)

\* mutant: the next check is made whatever the last one said
AfterCheck_flat(valid, then_pc) == then_pc
\* the nesting of the checks of lines 154-167: the next check is reached
\* only when the last one passed, otherwise the loop goes to the next line
AfterCheck(valid, then_pc) == IF valid THEN then_pc ELSE "loop"

\* mutant: the exception leaves the loop
OnCreateException_abort(ix) == [pc |-> "aborted", ix |-> ix]
\* lines 168-170: log and continue
OnCreateException(ix) == [pc |-> "loop", ix |-> ix + 1]

\* mutant: the resume reads no id
LoadSeen_none(file) == {}
\* lines 101-109: the ids of the records of the .base file
LoadSeen(file) == {file[i].instance_id : i \in 1..Len(file)}
NoOutcome == [kind |-> "none", ix |-> 0, run |-> 0]
Outcome_m(kind) == [kind |-> kind, ix |-> m_ix, run |-> m_run]

MIdle ==
    /\ pr_file = <<>> /\ m_world = [n \in MainNumbers |-> PullData(FALSE, 0, 0, FALSE)]
    /\ base_file = <<>> /\ medium_file = <<>> /\ high_file = <<>>
    /\ base_instances = 0 /\ medium_instances = 0 /\ high_instances = 0
    /\ total_instances = 0 /\ seen_prs = {} /\ m_pc = "idle" /\ m_ix = 0
    /\ m_instance = NoRecord /\ m_run = 0 /\ m_out = NoOutcome
    /\ m_len0 = <<0, 0, 0>> /\ assembled = {} /\ assembled_now = {}

DsIdle == IdIdle /\ HIdle /\ PIdle /\ MIdle

\* no call of call_api yet, by a Repo built without token
CaIdle ==
    /\ ca_pc = "idle" /\ ca_attempt = 0 /\ ca_posts = 0 /\ ca_fails = 0
    /\ ca_slept = 0 /\ ca_result = NoResult /\ ca_resp = NoPost
    /\ ca_token = None /\ ca_sent = None

SeedMins == {NoStars, 1}
SeedMaxs == {NoStars, SeedHigh}

\* crawl_github_repos up to the call of bfs_star_range, and its line 89
InitCrawl(worlds) ==
    /\ \E f \in TokenFiles :
         /\ token_cycle = load_tokens(f)
         /\ pc = IF load_tokens(f).raised = "ValueError" THEN "config_error"
                 ELSE "loop"
    /\ seed \in SeedMins \X SeedMaxs
    /\ repos \in worlds
    /\ queue = SeedQueue(seed[1], seed[2])
    /\ cur = <<>>
    /\ page = 0
    /\ all_items = <<>>
    /\ all_results = <<>>
    /\ nreq = 0
    /\ last_req = [token |-> None, status |-> NoResponse, phase |-> None,
                   par |-> 0]
    /\ paginated = {}
    /\ discarded = {}
    /\ CaIdle /\ VerIdle /\ GlIdle /\ DsIdle

InitBfs == InitCrawl(Worlds)

NextBfs == Pop \/ Return \/ CountRequest \/ PageRequest

SpecBfs == InitBfs /\ [][NextBfs]_vars

\* remotes on which a range has exactly as many repositories as a search
\* gives access to: ten full pages
FullWorlds ==
    {[s \in StarPoints |-> IF s <= UnboundedStep THEN ResultCap ELSE w] :
        w \in {0, Light}}
InitFull == InitCrawl(FullWorlds)
SpecFull == InitFull /\ [][NextBfs]_vars

(***************************************************************************)
(* Repo.call_api: the calls.                                               *)
(***************************************************************************)
\* a caller calls call_api(query, variables): attempt = 0
CallApiStart ==
    /\ ca_pc \in {"idle", "returned", "raised"}
    /\ ca_pc' = "running"
    /\ ca_attempt' = 0 /\ ca_posts' = 0 /\ ca_fails' = 0 /\ ca_slept' = 0
    /\ ca_result' = NoResult
    /\ ca_resp' = NoPost
    /\ UNCHANGED <<ca_token, ca_sent, bfs_vars, ver_vars, gl_vars,
                   ds_vars>>

\* one pass of the while loop of call_api
CallApiPost ==
    /\ ca_pc = "running"
    /\ \E resp \in PostResponses :
         LET out == call_api_pass(resp)
         IN  /\ ca_resp' = resp
             /\ ca_sent' = ca_token
             /\ ca_posts' = ca_posts + 1
             /\ ca_fails' = ca_fails + (IF resp.raised THEN 1 ELSE 0)
             /\ CASE out.kind = "caught" /\ ca_attempt < max_retries - 1 ->
                       /\ ca_slept' = ca_slept + RetryDelay
                       /\ ca_attempt' = ca_attempt + 1
                       /\ UNCHANGED <<ca_pc, ca_result>>
                  [] out.kind = "caught" /\ ~(ca_attempt < max_retries - 1) ->
                       /\ ca_pc' = "returned"
                       /\ ca_result' = Sentinel
                       /\ UNCHANGED <<ca_slept, ca_attempt>>
                  [] out.kind = "return" ->
                       /\ ca_slept' = ca_slept + out.pause
                       /\ ca_pc' = "returned"
                       /\ ca_result' = [kind |-> "return_response", exc |-> None]
                       /\ UNCHANGED ca_attempt
                  [] OTHER ->
                       /\ ca_slept' = ca_slept + out.pause
                       /\ ca_pc' = "raised"
                       /\ ca_result' = [kind |-> "raise", exc |-> out.exc]
                       /\ UNCHANGED ca_attempt
    /\ UNCHANGED <<ca_token, bfs_vars, ver_vars, gl_vars,
                   ds_vars>>

BfsIdle ==
    /\ pc = "idle" /\ seed = <<NoStars, NoStars>>
    /\ repos = [s \in StarPoints |-> 0]
    /\ token_cycle = load_tokens(<<>>)
    /\ queue = <<>> /\ cur = <<>> /\ page = 0
    /\ all_items = <<>> /\ all_results = <<>>
    /\ nreq = 0
    /\ last_req = [token |-> None, status |-> NoResponse, phase |-> None,
                   par |-> 0]
    /\ paginated = {} /\ discarded = {}

\* Repo.__init__: self.token = token, the Authorization header made of it
InitCallApi ==
    /\ BfsIdle /\ VerIdle /\ GlIdle /\ DsIdle
    /\ ca_pc = "idle" /\ ca_attempt = 0 /\ ca_posts = 0 /\ ca_fails = 0
    /\ ca_slept = 0 /\ ca_result = NoResult /\ ca_resp = NoPost
    /\ ca_token \in RepoTokens /\ ca_sent = None

NextCallApi == CallApiStart \/ CallApiPost

SpecCallApi == InitCallApi /\ [][NextCallApi]_vars

(***************************************************************************)
(* One Repo and its version resolutions: create_instance calls             *)
(* get_version_at_commit, which loads the tag cache (a listing request,    *)
(* then a date request per tag), asks for the date of the commit and       *)
(* resolves.  Every action is one call of call_api and the code up to the  *)
(* next one.                                                               *)
(***************************************************************************)
ver_history == <<calls, listings, tag_reqs, abandoned>>

\* get_version_at_commit(commit_sha) up to its first request: lines 223-228
\* and 50-51
GetVersionStart ==
    /\ v_pc \in {"idle"} /\ calls < MaxCalls
    /\ \E commit_sha \in Shas : v_sha' = commit_sha
    /\ calls' = calls + 1
    /\ v_pc' = IF SkipLoad(tags_cache_loaded) THEN "commit" ELSE "list"
    /\ v_commit_date' = NoDate
    /\ v_result' = NotFound
    /\ UNCHANGED <<refs, tags_cache, tags_cache_loaded, v_i, v_out, listings,
                   tag_reqs, abandoned, instance>>
    /\ UNCHANGED <<bfs_vars, ca_vars, gl_vars, ds_vars>>

\* _load_tags_cache, lines 75-80 and 118-122: the listing request
ListRequest ==
    /\ v_pc = "list"
    /\ \E posts \in ApiScripts :
         LET out == call_api(posts)
         IN  /\ v_out' = Outcome(out)
             /\ listings' = listings + 1
             /\ CASE out.kind = "raise" ->
                       /\ tags_cache' = OnLoadException(tags_cache).cache
                       /\ tags_cache_loaded' =
                              OnLoadException(tags_cache).loaded
                       /\ abandoned' = [raised |-> TRUE,
                                        tags |-> tags_cache.tags]
                       /\ v_pc' = "commit"
                       /\ UNCHANGED v_i
                  [] out.kind = "return_response" /\ refs # <<>> ->
                       /\ tags_cache' = List(<<>>)
                       /\ v_i' = 1
                       /\ v_pc' = "tag"
                       /\ UNCHANGED <<tags_cache_loaded, abandoned>>
                  [] OTHER ->
                       /\ tags_cache_loaded' = TRUE
                       /\ v_pc' = "commit"
                       /\ UNCHANGED <<tags_cache, v_i, abandoned>>
    /\ UNCHANGED <<refs, v_sha, v_commit_date, v_result, calls, tag_reqs,
                   instance>>
    /\ UNCHANGED <<bfs_vars, ca_vars, gl_vars, ds_vars>>

\* _load_tags_cache, lines 83-122: one pass of the for loop; after the last
\* one the sort, and the flag
TagDateRequest ==
    /\ v_pc = "tag"
    /\ \E posts \in ApiScripts :
         LET out == call_api(posts)
             tag == refs[v_i]
             tag_date == CommitDate(tag.oid)
             tags == IF out.kind = "return_response" /\ tag_date # NoDate
                       THEN Append(tags_cache.tags,
                                   [name |-> tag.name, oid |-> tag.oid,
                                    date |-> tag_date])
                     ELSE tags_cache.tags
         IN  /\ v_out' = Outcome(out)
             /\ tag_reqs' = tag_reqs + 1
             /\ CASE out.kind = "raise" ->
                       /\ tags_cache' = OnLoadException(tags_cache).cache
                       /\ tags_cache_loaded' =
                              OnLoadException(tags_cache).loaded
                       /\ abandoned' = [raised |-> TRUE,
                                        tags |-> tags_cache.tags]
                       /\ v_pc' = "commit"
                       /\ UNCHANGED v_i
                  [] out.kind # "raise" /\ v_i < Len(refs) ->
                       /\ tags_cache' = List(tags)
                       /\ v_i' = v_i + 1
                       /\ UNCHANGED <<tags_cache_loaded, abandoned, v_pc>>
                  [] OTHER ->
                       /\ tags_cache' = List(SortTags(tags))
                       /\ tags_cache_loaded' = TRUE
                       /\ v_pc' = "commit"
                       /\ UNCHANGED <<v_i, abandoned>>
    /\ UNCHANGED <<refs, v_sha, v_commit_date, v_result, calls, listings,
                   instance>>
    /\ UNCHANGED <<bfs_vars, ca_vars, gl_vars, ds_vars>>

\* get_version_at_commit, lines 231-322: the date request of the commit,
\* the resolution; an exception of the request is caught at line 320
CommitDateRequest ==
    /\ v_pc = "commit"
    /\ \E posts \in ApiScripts :
         LET out == call_api(posts)
             commit_date == IF out.kind = "return_response"
                              THEN CommitDate(v_sha) ELSE NoDate
         IN  /\ v_out' = Outcome(out)
             /\ v_commit_date' = commit_date
             /\ v_result' = IF out.kind = "raise" THEN NotFound
                            ELSE Resolve(tags_cache, v_sha, commit_date)
    /\ v_pc' = "returned"
    /\ UNCHANGED <<refs, tags_cache, tags_cache_loaded, v_sha, v_i,
                   ver_history, instance>>
    /\ UNCHANGED <<bfs_vars, ca_vars, gl_vars, ds_vars>>

\* create_instance, lines 46-68: the instance with its version
CreateInstanceReturn ==
    /\ v_pc = "returned"
    /\ instance' = [made |-> TRUE,
                    version |-> create_instance_version(v_result)]
    /\ v_pc' = "idle"
    /\ UNCHANGED <<refs, tags_cache, tags_cache_loaded, v_sha, v_i, v_out,
                   v_commit_date, v_result, ver_history>>
    /\ UNCHANGED <<bfs_vars, ca_vars, gl_vars, ds_vars>>

\* Repo.__init__ (lines 42-44) for a repository with some tag refs
InitVersion ==
    /\ BfsIdle /\ CaIdle /\ GlIdle /\ DsIdle
    /\ refs \in RefLists
    /\ tags_cache = NoCache /\ tags_cache_loaded = FALSE
    /\ v_pc = "idle" /\ v_sha = None /\ v_i = 0 /\ v_out = NoResult
    /\ v_commit_date = NoDate /\ v_result = NotFound
    /\ calls = 0 /\ listings = 0 /\ tag_reqs = 0
    /\ abandoned = [raised |-> FALSE, tags |-> <<>>]
    /\ instance = NoInstance

NextVersion ==
    GetVersionStart \/ ListRequest \/ TagDateRequest \/ CommitDateRequest
        \/ CreateInstanceReturn

SpecVersion == InitVersion /\ [][NextVersion]_vars

(***************************************************************************)
(* Repo.get_all_loop, consumed to its end.                                 *)
(***************************************************************************)
\* one pass of the outer while loop (lines 345-373), and the first reading
\* of the header in the except clause
GetAllLoopRequest ==
    /\ gl_pc = "request"
    /\ \E posts \in ApiScripts :
         LET out == call_api(posts)
             data == PageAfter(gl_world, gl_after)
             handler == OnPageException(gl_response')
         IN  /\ gl_out' = Outcome(out)
             /\ gl_response' =
                    CASE out.kind = "return_response" -> BoundTo(out.response)
                      [] out.kind = "return_None" -> BoundNone
                      [] OTHER -> gl_response
             /\ CASE out.kind # "return_response" ->
                       /\ gl_pc' = handler.pc
                       /\ UNCHANGED <<gl_yielded, gl_after, gl_page>>
                  [] out.kind = "return_response" /\ data.nodes = <<>> ->
                       /\ gl_pc' = "done"
                       /\ UNCHANGED <<gl_yielded, gl_after, gl_page>>
                  [] out.kind = "return_response" /\ data.nodes # <<>>
                       /\ LastPage(data, gl_page, gl_num_pages) ->
                       /\ gl_yielded' = gl_yielded \o data.nodes
                       /\ gl_pc' = "done"
                       /\ UNCHANGED <<gl_after, gl_page>>
                  [] OTHER ->
                       /\ gl_yielded' = gl_yielded \o data.nodes
                       /\ gl_after' = data.endCursor
                       /\ gl_page' = gl_page + 1
                       /\ UNCHANGED gl_pc
    /\ UNCHANGED <<gl_world, gl_num_pages, gl_polls>>
    /\ UNCHANGED <<bfs_vars, ca_vars, ver_vars, ds_vars>>

\* the inner while loop (lines 374-382) after time.sleep(60 * 5): the same
\* header of the same response is read again
GetAllLoopWait ==
    /\ gl_pc = "wait"
    /\ gl_polls' = IF gl_polls < MaxPolls THEN gl_polls + 1 ELSE gl_polls
    /\ gl_pc' = OnPageException(gl_response).pc
    /\ UNCHANGED <<gl_world, gl_num_pages, gl_after, gl_page, gl_yielded,
                   gl_response, gl_out>>
    /\ UNCHANGED <<bfs_vars, ca_vars, ver_vars, ds_vars>>

\* get_all_loop(query, variables, data_path, num_pages=...): lines 343-344
InitPages ==
    /\ BfsIdle /\ CaIdle /\ VerIdle /\ DsIdle
    /\ gl_pc = "request"
    /\ gl_world \in GqlWorlds
    /\ gl_num_pages \in 0..MaxGqlPages
    /\ gl_after = 0 /\ gl_page = 1
    /\ gl_yielded = <<>> /\ gl_response = Unbound /\ gl_out = NoResult
    /\ gl_polls = 0

NextPages == GetAllLoopRequest \/ GetAllLoopWait

SpecPages == InitPages /\ [][NextPages]_vars

\* main, lines 137-140, for two lines of the pull file
InstanceIds ==
    /\ id_out = NoIds
    /\ id_out' = <<instance_id(id_pulls[1].full_name, id_pulls[1].number),
                   instance_id(id_pulls[2].full_name, id_pulls[2].number)>>
    /\ UNCHANGED <<id_pulls, h_vars, p_vars, m_vars>>
    /\ UNCHANGED <<bfs_vars, ca_vars, ver_vars, gl_vars>>

InitIds ==
    /\ BfsIdle /\ CaIdle /\ VerIdle /\ GlIdle /\ HIdle /\ PIdle /\ MIdle
    /\ id_pulls \in Pulls \X Pulls
    /\ id_out = NoIds

NextIds == InstanceIds

SpecIds == InitIds /\ [][NextIds]_vars

\* _extract_hints(pull, repo, issue_number), both listings read
ExtractHints ==
    /\ h_out = NoHints
    /\ h_out' = extract_hints(h_commits, h_comments, h_tz)
    /\ UNCHANGED <<h_tz, h_commits, h_comments, id_vars, p_vars, m_vars>>
    /\ UNCHANGED <<bfs_vars, ca_vars, ver_vars, gl_vars>>

InitHints ==
    /\ BfsIdle /\ CaIdle /\ VerIdle /\ GlIdle /\ IdIdle /\ PIdle /\ MIdle
    /\ h_tz \in LocalOffsets
    /\ h_commits \in {<<>>} \cup {<<d>> : d \in AuthorDates}
    /\ \E l \in CommentLists :
         h_comments = [i \in 1..Len(l) |-> Comment(l[i], CommentBodies[i])]
    /\ h_out = NoHints

NextHints == ExtractHints

SpecHints == InitHints /\ [][NextHints]_vars

\* extract_patches(pull, repo), the diff downloaded
ExtractPatches ==
    /\ p_out = NoPatches
    /\ p_out' = extract_patches(PatchSet(p_diff))
    /\ UNCHANGED <<p_diff, id_vars, h_vars, m_vars>>
    /\ UNCHANGED <<bfs_vars, ca_vars, ver_vars, gl_vars>>

InitPatches ==
    /\ BfsIdle /\ CaIdle /\ VerIdle /\ GlIdle /\ IdIdle /\ HIdle /\ MIdle
    /\ p_diff \in Diffs
    /\ p_out = NoPatches

NextPatches == ExtractPatches

SpecPatches == InitPatches /\ [][NextPatches]_vars

\* main, lines 90-127: the counters, the resume from the .base file, the
\* three files opened for writing
StartRun ==
    /\ m_pc \in {"start", "done", "killed", "aborted"}
    /\ m_run < MaxRuns
    /\ m_run' = m_run + 1
    /\ seen_prs' = LoadSeen(base_file)
    /\ base_instances' = Len(SelectSeq(base_file, is_valid_instance_base))
    /\ medium_instances' =
           Len(SelectSeq(base_file,
                      LAMBDA r : is_valid_instance_base(r)
                                   /\ is_valid_instance_medium(r)))
    /\ high_instances' =
           Len(SelectSeq(base_file,
                      LAMBDA r : /\ is_valid_instance_base(r)
                                 /\ is_valid_instance_medium(r)
                                 /\ is_valid_instance_high(r)))
    /\ total_instances' = 0
    /\ m_ix' = 1 /\ m_pc' = "loop" /\ m_instance' = NoRecord
    /\ m_out' = NoOutcome
    /\ m_len0' = <<Len(base_file), Len(medium_file), Len(high_file)>>
    /\ assembled' = assembled \cup assembled_now
    /\ assembled_now' = {}
    /\ UNCHANGED <<pr_file, m_world, tier_files>>
    /\ UNCHANGED <<bfs_vars, ca_vars, ver_vars, gl_vars, id_vars, h_vars, p_vars>>

\* main, lines 128-153 and 168-170: one line of the pull file up to the
\* return of create_instance or its exception
Line ==
    /\ m_pc = "loop" /\ m_ix <= Len(pr_file)
    /\ total_instances' = total_instances + 1
    /\ LET number == pr_file[m_ix]
           pull == m_world[number]
           id == instance_id(MainRepo, number)
       IN  IF id \in seen_prs
             THEN /\ m_out' = Outcome_m("seen")
                  /\ m_ix' = m_ix + 1
                  /\ UNCHANGED <<m_pc, m_instance, assembled_now>>
           ELSE IF ~is_valid_pull(pull)
             THEN /\ m_out' = Outcome_m("invalid")
                  /\ m_ix' = m_ix + 1
                  /\ UNCHANGED <<m_pc, m_instance, assembled_now>>
           ELSE \/ /\ m_out' = Outcome_m("raised")
                   /\ m_pc' = OnCreateException(m_ix).pc
                   /\ m_ix' = OnCreateException(m_ix).ix
                   /\ UNCHANGED <<m_instance, assembled_now>>
                \/ /\ m_out' = Outcome_m("created")
                   /\ m_instance' = create_instance(number, pull)
                   /\ assembled_now' = assembled_now \cup {id}
                   /\ m_pc' = "base"
                   /\ UNCHANGED m_ix
    /\ UNCHANGED <<pr_file, m_world, tier_files, tier_counters, seen_prs, m_run, m_len0,
                   assembled>>
    /\ UNCHANGED <<bfs_vars, ca_vars, ver_vars, gl_vars, id_vars, h_vars, p_vars>>

\* main, lines 154-159
WriteBase ==
    /\ m_pc = "base"
    /\ LET valid == is_valid_instance_base(m_instance)
       IN  /\ IF valid
                THEN /\ base_file' = Append(base_file, m_instance)
                     /\ base_instances' = base_instances + 1
              ELSE UNCHANGED <<base_file, base_instances>>
           /\ m_pc' = AfterCheck(valid, "medium")
           /\ m_ix' = IF m_pc' = "loop" THEN m_ix + 1 ELSE m_ix
    /\ UNCHANGED <<pr_file, m_world, medium_file, high_file, medium_instances,
                   high_instances, total_instances, seen_prs, m_instance,
                   m_run, m_out, m_len0, assembled, assembled_now>>
    /\ UNCHANGED <<bfs_vars, ca_vars, ver_vars, gl_vars, id_vars, h_vars, p_vars>>

\* main, lines 160-163
WriteMedium ==
    /\ m_pc = "medium"
    /\ LET valid == is_valid_instance_medium(m_instance)
       IN  /\ IF valid
                THEN /\ medium_file' = Append(medium_file, m_instance)
                     /\ medium_instances' = medium_instances + 1
              ELSE UNCHANGED <<medium_file, medium_instances>>
           /\ m_pc' = AfterCheck(valid, "high")
           /\ m_ix' = IF m_pc' = "loop" THEN m_ix + 1 ELSE m_ix
    /\ UNCHANGED <<pr_file, m_world, base_file, high_file, base_instances,
                   high_instances, total_instances, seen_prs, m_instance,
                   m_run, m_out, m_len0, assembled, assembled_now>>
    /\ UNCHANGED <<bfs_vars, ca_vars, ver_vars, gl_vars, id_vars, h_vars, p_vars>>

\* main, lines 164-167
WriteHigh ==
    /\ m_pc = "high"
    /\ IF is_valid_instance_high(m_instance)
         THEN /\ high_file' = Append(high_file, m_instance)
              /\ high_instances' = high_instances + 1
       ELSE UNCHANGED <<high_file, high_instances>>
    /\ m_pc' = "loop" /\ m_ix' = m_ix + 1
    /\ UNCHANGED <<pr_file, m_world, base_file, medium_file, base_instances,
                   medium_instances, total_instances, seen_prs, m_instance,
                   m_run, m_out, m_len0, assembled, assembled_now>>
    /\ UNCHANGED <<bfs_vars, ca_vars, ver_vars, gl_vars, id_vars, h_vars, p_vars>>

\* main, lines 171-172: the pull file is read through
EndRun ==
    /\ m_pc = "loop" /\ m_ix > Len(pr_file)
    /\ m_pc' = "done"
    /\ UNCHANGED <<pr_file, m_world, tier_files, tier_counters, total_instances, seen_prs,
                   m_ix, m_instance, m_run, m_out, m_len0, assembled,
                   assembled_now>>
    /\ UNCHANGED <<bfs_vars, ca_vars, ver_vars, gl_vars, id_vars, h_vars, p_vars>>

\* the process is stopped from outside in the middle of a run; every print
\* of lines 156-166 is flushed, so the files keep what was written
Interrupt ==
    /\ m_pc \in {"loop", "base", "medium", "high"}
    /\ m_pc' = "killed"
    /\ UNCHANGED <<pr_file, m_world, tier_files, tier_counters, total_instances, seen_prs,
                   m_ix, m_instance, m_run, m_out, m_len0, assembled,
                   assembled_now>>
    /\ UNCHANGED <<bfs_vars, ca_vars, ver_vars, gl_vars, id_vars, h_vars, p_vars>>

\* before the first run: no output file exists
InitMain ==
    /\ BfsIdle /\ CaIdle /\ VerIdle /\ GlIdle /\ IdIdle /\ HIdle /\ PIdle
    /\ pr_file \in PrFiles
    /\ m_world \in [MainNumbers -> PullKinds]
    /\ base_file = <<>> /\ medium_file = <<>> /\ high_file = <<>>
    /\ base_instances = 0 /\ medium_instances = 0 /\ high_instances = 0
    /\ total_instances = 0 /\ seen_prs = {} /\ m_pc = "start" /\ m_ix = 0
    /\ m_instance = NoRecord /\ m_run = 0 /\ m_out = NoOutcome
    /\ m_len0 = <<0, 0, 0>> /\ assembled = {} /\ assembled_now = {}

NextMain ==
    \/ StartRun \/ Line \/ WriteBase \/ WriteMedium \/ WriteHigh \/ EndRun
    \/ Interrupt

SpecMain == InitMain /\ [][NextMain]_vars

CaEnded == ca_pc \in {"returned", "raised"}

AllAttemptsFailed ==
    (CaEnded /\ ca_fails = ca_posts)
        => ca_posts = max_retries /\ ca_result = Sentinel

SentinelOnlyAfterBudget ==
    (ca_pc = "returned" /\ ca_result = Sentinel) => ca_fails >= max_retries

(***************************************************************************)
(* C9: transport failures are retried.  A call all of whose attempts       *)
(* failed at transport level ends after exactly 10 attempts, returning     *)
(* None (it does not raise); and a call returns None only after 10         *)
(* transport failures.                                                     *)
(***************************************************************************)
C9_TransportRetries == AllAttemptsFailed /\ SentinelOnlyAfterBudget

RaiseCase(resp) ==
    /\ ~resp.raised
    /\ \/ resp.status_code \notin {OkStatus, RateLimitStatus}
       \/ resp.status_code = OkStatus /\ resp.body # "data"

(***************************************************************************)
(* C10: call_api raises to its caller exactly when the answer's status is  *)
(* neither 200 nor 403, or is 200 with a body without data: such an answer *)
(* ends the call with an exception (no retry, no response returned), and   *)
(* no other answer does.                                                   *)
(***************************************************************************)
C10_RaisesExactly ==
    (ca_posts > 0 /\ ~ca_resp.raised /\ ca_resp.body # "notjson")
        => (ca_pc = "raised" <=> RaiseCase(ca_resp))

(***************************************************************************)
(* Vocabulary of the properties of the crawl.                              *)
(***************************************************************************)
Elems(seq) == {seq[i] : i \in 1..Len(seq)}
Bounded(r) == r[2] # NoStars
InRange(s, r) == r[1] <= s /\ (Bounded(r) => s <= r[2])
Disjoint(r1, r2) ==
    \/ Bounded(r1) /\ r1[2] < r2[1]
    \/ Bounded(r2) /\ r2[2] < r1[1]
QueryOf(r) == make_query(Language, r[1], r[2])
OverCap(r) == RemoteTotal(repos, QueryOf(r)) > ResultCap
MidOf(r) == IF Bounded(r) THEN (r[1] + r[2]) \div 2 ELSE r[1] + UnboundedStep
SeedRange == SeedQueue(seed[1], seed[2])[1]
Processing == pc \in {"count", "page"}
\* a step that made one session.get
RequestStep == last_req'.par # last_req.par
\* the count query of cur was just answered with a count above the cap
OverCapAnswer ==
    /\ pc = "count" /\ RequestStep
    /\ github_api_request(last_req'.status) = "return"
    /\ OverCap(cur)
\* the star values next to the ends of the ranges of a step
Around(r) == {r[1] - 1, r[1], r[1] + 1} \cup
             (IF Bounded(r) THEN {r[2] - 1, r[2], r[2] + 1} ELSE {})

\* the step appended [low, mid] and [mid+1, high] of cur, which share no
\* star value and hold those of cur and no other
ExactSplit ==
    Len(queue') = Len(queue) + 2 /\ SubSeq(queue', 1, Len(queue)) = queue
    /\ LET a == queue'[Len(queue) + 1]
           b == queue'[Len(queue) + 2]
       IN  /\ a = <<cur[1], MidOf(cur)>>
           /\ b = <<MidOf(cur) + 1, cur[2]>>
           /\ \A s \in Around(cur) \cup Around(a) \cup Around(b) :
                /\ InRange(s, cur) <=> (InRange(s, a) \/ InRange(s, b))
                /\ ~(InRange(s, a) /\ InRange(s, b))

(***************************************************************************)
(* C1: when bfs_star_range splits a range whose count exceeds 1000, it     *)
(* appends exactly two ranges, [low, mid] and [mid+1, high] (mid = low +   *)
(* 5000 when high is unbounded): every star value of the range is in       *)
(* exactly one of the two, and neither holds a value outside the range.    *)
(***************************************************************************)
C1_SplitIsPartition ==
    [][OverCapAnswer /\ queue' # queue => ExactSplit]_vars

\* both kinds of split have happened: a crawl seeded without upper bound
\* holds two adjacent bounded halves
C1_Witness ==
    /\ seed[2] = NoStars /\ Len(queue) = 2
    /\ Bounded(queue[1]) /\ Bounded(queue[2])
    /\ queue[2][1] = queue[1][2] + 1

DropStep ==
    OverCapAnswer /\ MidOf(cur) <= cur[1]
        => queue' = queue /\ pc' = "loop" /\ cur \in discarded'

DroppedStaysOut ==
    /\ \A r \in discarded : r \notin Elems(queue) /\ (Processing => cur # r)
    /\ (Bounded(SeedRange) => SeedRange[1] <= SeedRange[2])
         => \A r \in Elems(queue) : Bounded(r) => r[1] <= r[2]

(***************************************************************************)
(* C3: a range whose count exceeds 1000 and whose mid is <= low is dropped:*)
(* nothing is appended for it and it never is in the worklist (or being    *)
(* processed) again; and when the seeded range has low <= high, so has     *)
(* every bounded range of the worklist.                                    *)
(***************************************************************************)
C3_DegenerateDropped == [](DroppedStaysOut) /\ [][DropStep]_vars

\* a range was just dropped because of its mid
C3_Witness ==
    /\ pc = "loop" /\ cur # <<>> /\ cur \in discarded
    /\ last_req.phase = "count"
    /\ github_api_request(last_req.status) = "return"
    /\ OverCap(cur) /\ MidOf(cur) <= cur[1]
    /\ queue # <<>>

QueueDisjoint ==
    \A i, j \in 1..Len(queue) : i # j => Disjoint(queue[i], queue[j])

\* the ranges of S, laid end to end, are exactly the range whole
Tiles(S, whole) ==
    /\ \A r \in S : r[1] >= whole[1] /\ (Bounded(whole) => Bounded(r) /\ r[2] <= whole[2])
    /\ \E r \in S : r[1] = whole[1]
    /\ \A r \in S : \/ r[2] = whole[2]
                    \/ Bounded(r) /\ \E r2 \in S : r2[1] = r[2] + 1
    /\ \A r1, r2 \in S : r1 # r2 => Disjoint(r1, r2)

(***************************************************************************)
(* C4, as claimed: at every turn of the loop the ranges of the worklist    *)
(* are pairwise disjoint and together cover the seeded range.              *)
(***************************************************************************)
C4_QueueCoversSeed ==
    pc = "loop" => QueueDisjoint /\ Tiles(Elems(queue), SeedRange)

Pieces ==
    Elems(queue) \cup (IF Processing THEN {cur} ELSE {})
        \cup paginated \cup discarded

(***************************************************************************)
(* C4, amended: the ranges of the worklist are pairwise disjoint, and      *)
(* together with the range being processed and the ranges already          *)
(* paginated or discarded they cover the seeded range, no star value twice.*)
(***************************************************************************)
C4_QueueDisjointAndAccounted ==
    /\ QueueDisjoint
    /\ Processing => \A r \in Elems(queue) : Disjoint(r, cur)
    /\ Tiles(Pieces, SeedRange)

C4_Witness ==
    /\ Len(queue) >= 2 /\ paginated # {} /\ discarded # {} /\ Processing

PageFailStep ==
    pc = "page" /\ RequestStep /\ github_api_request(last_req'.status) = "raise"
        => /\ queue' = Append(queue, cur)
           /\ pc' = "loop"
           /\ all_results' = all_results

StaysQueued ==
    \A i \in 1..Len(queue) :
        \/ \E j \in 1..Len(queue') : queue'[j] = queue[i]
        \/ i = 1 /\ cur' = queue[i] /\ pc' = "count"

(***************************************************************************)
(* C5: when a page request of a range fails, the same range is appended to *)
(* the worklist, nothing is added to the result, the loop goes on (it does *)
(* not raise); and a range leaves the worklist only by being popped for    *)
(* processing, so the requeued range is fetched again.                     *)
(***************************************************************************)
C5_RequeueOnPageFailure == [][PageFailStep /\ StaysQueued]_vars

\* a range whose pagination failed is at the end of the worklist, behind
\* another range
C5_Witness ==
    /\ pc = "loop" /\ last_req.phase = "page"
    /\ github_api_request(last_req.status) = "raise"
    /\ Len(queue) >= 2 /\ queue[Len(queue)] = cur

(***************************************************************************)
(* C6: with the credential pool loaded, bfs_star_range never raises,       *)
(* whatever the requests answer: after a failed request it is at the head  *)
(* of its loop again.                                                      *)
(***************************************************************************)
C6_NeverRaises ==
    /\ pc # "raised"
    /\ (last_req.phase # None /\ github_api_request(last_req.status) = "raise"
          /\ pc \notin {"config_error"})
         => pc \in {"loop", "count", "done"}

\* a crawl that returned normally although its last request failed
C6_Witness ==
    /\ pc = "done" /\ last_req.phase = "count"
    /\ github_api_request(last_req.status) = "raise"
    /\ paginated # {}

PoolSize == Len(token_cycle.tokens)

KthToken ==
    (1 <= nreq /\ nreq <= MaxReq)
        => last_req.token = token_cycle.tokens[((nreq - 1) % PoolSize) + 1]

CursorStep ==
    /\ token_cycle'.tokens = token_cycle.tokens
    /\ IF RequestStep
         THEN /\ last_req'.token = token_cycle.tokens[token_cycle.pos]
              /\ token_cycle'.pos = (token_cycle.pos % PoolSize) + 1
         ELSE token_cycle' = token_cycle /\ last_req' = last_req

(***************************************************************************)
(* C7: the k-th request of a crawl carries credential number (k-1) mod n   *)
(* of the n loaded ones; every request takes the token under the cursor    *)
(* and moves the cursor by one, and nothing else moves it.                 *)
(***************************************************************************)
C7_RoundRobin == [](KthToken) /\ [][CursorStep]_vars

\* the fourth request of a crawl with two credentials, a 403 before it
C7_Witness ==
    /\ nreq = MaxReq /\ PoolSize = 2
    /\ token_cycle.tokens[1] # token_cycle.tokens[2]
    /\ last_req.status = Http(RateLimitStatus)

RetryStep ==
    RequestStep =>
        IF ~last_req'.status.raised
              /\ last_req'.status.status_code = RateLimitStatus
          THEN /\ UNCHANGED <<pc, queue, cur, page, all_items, all_results,
                              paginated, discarded>>
               /\ token_cycle'.pos = (token_cycle.pos % PoolSize) + 1
          ELSE pc' # pc \/ page' # page

(***************************************************************************)
(* C8: a 403 answer does not end github_api_request: the caller's state is *)
(* unchanged, the cursor moves to the next credential and the same request *)
(* is made again; a call that ends has not just been answered 403.         *)
(***************************************************************************)
C8_Retry403 == [][RetryStep]_vars

\* the second 403 in a row of a page request
C8_Witness ==
    /\ pc = "page" /\ last_req.status = Http(RateLimitStatus)
    /\ last_req.phase = "page" /\ page = 2

LiveBfs == InitBfs /\ [][NextBfs]_vars /\ WF_vars(NextBfs)

Terminated == pc \in {"done", "config_error"}

(***************************************************************************)
(* C2, as claimed: bfs_star_range returns (the worklist becomes empty and  *)
(* the loop ends) in every crawl; the remote's data is finite.             *)
(***************************************************************************)

C2_Terminates == <>Terminated

Stalling ==
    \/ last_req.status = Http(RateLimitStatus)
    \/ last_req.phase = "page" /\ github_api_request(last_req.status) = "raise"

(***************************************************************************)
(* C2, amended: bfs_star_range returns in every crawl in which only        *)
(* finitely many requests are answered 403 or fail while a range is        *)
(* paginated.                                                              *)
(***************************************************************************)
C2_TerminatesUnlessStalled == ([]<>(Stalling /\ ~Terminated)) \/ <>Terminated

\* a crawl without upper bound that returned after paginating and discarding
C2_Witness ==
    /\ pc = "done" /\ seed[2] = NoStars
    /\ paginated # {} /\ Cardinality(discarded) >= 2
    /\ all_results # <<>>

(***************************************************************************)
(* C11: a caller of call_api goes on or finishes without raising when      *)
(* call_api returns None; here the paginator, get_all_loop.                *)
(***************************************************************************)
C11_SentinelTolerated == gl_out.kind = "return_None" => gl_pc # "raised"

(***************************************************************************)
(* C12: a 403 answer ends call_api neither by return nor by exception: the *)
(* call is still running after it (waiting for quota, then asking again).  *)
(***************************************************************************)
C12_Waits403 ==
    (ca_posts > 0 /\ ~ca_resp.raised /\ ca_resp.status_code = RateLimitStatus)
        => ca_pc = "running"

(***************************************************************************)
(* C13: every request of the client takes the next credential of the       *)
(* rotator: a request of call_api does not carry the credential the        *)
(* request before it carried.                                              *)
(***************************************************************************)
C13_NextCredentialEachRequest ==
    [][(ca_posts' = ca_posts + 1 /\ ca_sent # None) => ca_sent' # ca_sent]_vars

CacheTags == tags_cache.tags
\* the cached tags whose target is the requested commit, in cache order
MatchingTags == SelectSeq(CacheTags, LAMBDA tag : tag.oid = v_sha)
Resolved == v_pc = "returned"

BuildOnce ==
    /\ listings <= 1
    /\ tag_reqs <= Len(refs)
    /\ listings = 0 => tag_reqs = 0

BuildOnFirstCall ==
    (listings' # listings \/ tag_reqs' # tag_reqs) => calls = 1

LoadedStays ==
    tags_cache_loaded => tags_cache_loaded' /\ tags_cache' = tags_cache

(***************************************************************************)
(* C14: over the calls of get_version_at_commit on one Repo the listing    *)
(* request is made at most once and each date request of a tag at most     *)
(* once, all during the first call; once the loaded flag is set it stays   *)
(* set and the cache is not changed.                                       *)
(***************************************************************************)
C14_TagsBuiltOnce == [](BuildOnce) /\ [][BuildOnFirstCall /\ LoadedStays]_vars

\* a second resolution ended on the cache the first one built
C14_Witness ==
    /\ Resolved /\ calls = 2 /\ listings = 1 /\ tag_reqs = Len(refs)
    /\ Len(CacheTags) = 2 /\ v_result.found

\* a step of the build: the listing request or a date request of a tag
AbsorbStep ==
    v_pc \in {"list", "tag"} =>
        /\ v_pc' \in {"tag", "commit"}
        /\ v_pc' = "commit" => tags_cache_loaded'
        /\ v_out'.kind = "raise" =>
               /\ v_pc' = "commit"
               /\ tags_cache' = List(<<>>)
               /\ abandoned'.raised
        /\ (v_out'.kind = "return_None" /\ v_pc = "list") => v_pc' = "commit"

AfterBuild ==
    /\ v_pc \in {"commit", "returned"} => tags_cache_loaded
    /\ abandoned.raised =>
           /\ tags_cache = List(<<>>)
           /\ Resolved => ~v_result.found

(***************************************************************************)
(* C15: when the listing request or a date request of a tag raises or      *)
(* gives no data, _load_tags_cache returns normally with the loaded flag   *)
(* set; when a request raised, the cache is the empty list, whatever was   *)
(* built before, and the resolution returns not-found.                     *)
(***************************************************************************)
C15_BuildFailureAbsorbed == [](AfterBuild) /\ [][AbsorbStep]_vars

\* the date request of the second tag raised: the first tag, the one of
\* the requested commit, was thrown away
C15_Witness ==
    /\ Resolved /\ abandoned.raised /\ abandoned.tags # <<>>
    /\ abandoned.tags[1].oid = v_sha
    /\ v_out.kind = "return_response"

(***************************************************************************)
(* C16: when a cached tag has the requested commit as its target,          *)
(* get_version_at_commit returns the first major.minor of the name of the  *)
(* first such tag of the cache.                                            *)
(***************************************************************************)
C16_ExactMatchVersion ==
    (Resolved /\ MatchingTags # <<>>
        /\ major_minor(MatchingTags[1].name) # <<>>)
        => v_result = Found(major_minor(MatchingTags[1].name))

(***************************************************************************)
(* C17: when the first tag of the requested commit has no major.minor in   *)
(* its name, get_version_at_commit goes on to the nearest tag and to the   *)
(* newest tag: with a newest tag that has a major.minor, a version is      *)
(* returned (the date request of the commit not having raised).            *)
(***************************************************************************)
C17_FallsThrough ==
    (Resolved /\ v_out.kind # "raise" /\ MatchingTags # <<>>
        /\ major_minor(MatchingTags[1].name) = <<>>
        /\ major_minor(CacheTags[1].name) # <<>>)
        => v_result.found

\* tag number i is as near the commit as any, and nearer than those before
IsNearest(i) ==
    /\ \A j \in 1..Len(CacheTags) :
         Distance(CacheTags[i], v_commit_date)
             <= Distance(CacheTags[j], v_commit_date)
    /\ \A j \in 1..(i - 1) :
         Distance(CacheTags[j], v_commit_date)
             > Distance(CacheTags[i], v_commit_date)

(***************************************************************************)
(* C18: with tags cached, none of them on the requested commit, and the    *)
(* date of the commit obtained, the tag used is the one whose date is      *)
(* nearest the commit's (before or after), the first in cache order of     *)
(* those equally near: its major.minor, if it has one, is returned.        *)
(***************************************************************************)
C18_NearestByDate ==
    (Resolved /\ Truthy(tags_cache) /\ MatchingTags = <<>>
        /\ v_commit_date # NoDate)
        => \E i \in 1..Len(CacheTags) :
              /\ IsNearest(i)
              /\ major_minor(CacheTags[i].name) # <<>>
                   => v_result = Found(major_minor(CacheTags[i].name))

\* the tag 2 days before the commit won over the newest tag, 10 days after
C18_Witness ==
    /\ Resolved /\ Len(CacheTags) = 2 /\ v_commit_date # NoDate
    /\ MatchingTags = <<>>
    /\ Distance(CacheTags[1], v_commit_date) = 10
    /\ Distance(CacheTags[2], v_commit_date) = 2
    /\ ParseDate(CacheTags[2].date) < ParseDate(v_commit_date)
    /\ v_result = Found(major_minor(CacheTags[2].name))

(***************************************************************************)
(* C19: when the date of the commit is not obtained, the resolution still  *)
(* gives the version of the exact match, or without exact match that of    *)
(* the newest tag.                                                         *)
(***************************************************************************)
C19_DateBestEffort ==
    (Resolved /\ v_commit_date = NoDate /\ Truthy(tags_cache)
        /\ IF MatchingTags # <<>>
             THEN major_minor(MatchingTags[1].name) # <<>>
           ELSE major_minor(CacheTags[1].name) # <<>>)
        => v_result.found

InstanceStep ==
    (v_pc = "returned" /\ v_pc' = "idle") =>
        /\ instance'.made
        /\ instance'.version = IF v_result.found THEN v_result.version
                               ELSE DefaultVersion

(***************************************************************************)
(* C20: create_instance returns an instance after every resolution, with   *)
(* the version "0.0" when get_version_at_commit gave none; the version of  *)
(* an instance is never empty.                                             *)
(***************************************************************************)
C20_DefaultVersion ==
    [](instance.made => instance.version # <<>>) /\ [][InstanceStep]_vars

\* an instance with version "0.0" of a repository whose tags are cached:
\* the date request of the commit raised
C20_Witness ==
    /\ instance.made /\ instance.version = DefaultVersion
    /\ v_pc = "idle" /\ ~v_result.found
    /\ v_out.kind = "raise" /\ Truthy(tags_cache)

(***************************************************************************)
(* C28: a bounded range whose count exceeds 1000 is dropped only when it   *)
(* holds a single star value: with low < high it is split in two.          *)
(***************************************************************************)
C28_OnlySingleValueDropped ==
    [][(OverCapAnswer /\ Bounded(cur) /\ cur[1] < cur[2])
          => Len(queue') = Len(queue) + 2]_vars

\* a requests.post of call_api that was answered 200
OkPostStep ==
    /\ ca_posts' = ca_posts + 1
    /\ ~ca_resp'.raised /\ ca_resp'.status_code = OkStatus

PauseInCall ==
    OkPostStep =>
        /\ ca_pc' \in {"returned", "raised"}
        /\ ca_slept' - ca_slept =
               IF ParseInt(ca_resp'.remaining) < 100
                 THEN LowWaterPause + LowerWaterPause
               ELSE IF ParseInt(ca_resp'.remaining) < 1000
                 THEN LowWaterPause
               ELSE 0

ReadStep == gl_pc = "request" /\ gl_out'.kind = "return_response"
\* the page the remote holds behind the cursor of the request
PageRead == PageAfter(gl_world, gl_after)
LimitReached == gl_num_pages # 0 /\ gl_page >= gl_num_pages
YieldsPage ==
    IF PageRead.nodes = <<>>
      THEN gl_pc' = "done" /\ gl_yielded' = gl_yielded
    ELSE /\ gl_yielded' = gl_yielded \o PageRead.nodes
         /\ gl_pc' # "done" =>
               gl_after' = PageRead.endCursor /\ gl_page' = gl_page + 1

(***************************************************************************)
(* C30: the first request carries no cursor; a page without nodes ends the *)
(* loop; a page with nodes is yielded in order and ends the loop exactly   *)
(* when its hasNextPage is false; otherwise the next request carries its   *)
(* endCursor.                                                              *)
(***************************************************************************)
C30_StopsOnHasNextPage ==
    /\ [](gl_page = 1 => gl_after = 0)
    /\ [][ReadStep =>
            /\ YieldsPage
            /\ PageRead.nodes # <<>> =>
                  (gl_pc' = "done" <=> ~PageRead.hasNextPage)]_vars

(***************************************************************************)
(* C30, amended: as above, but a page with nodes ends the loop exactly     *)
(* when its hasNextPage is false or the page limit of the call is reached. *)
(***************************************************************************)
C30_StopsOnLastPage ==
    /\ [](gl_page = 1 => gl_after = 0)
    /\ [][ReadStep =>
            /\ YieldsPage
            /\ PageRead.nodes # <<>> =>
                  (gl_pc' = "done" <=>
                       (~PageRead.hasNextPage \/ LimitReached))]_vars

\* two pages were read, the second behind the cursor of the first, and the
\* loop ended at the limit of two pages although a third page was announced
C30_Witness ==
    /\ gl_pc = "done" /\ gl_num_pages = 2 /\ gl_page = 2 /\ gl_after = 1
    /\ gl_world[1].hasNextPage /\ gl_world[2].hasNextPage
    /\ gl_yielded = <<<<1, 1>>, <<1, 2>>, <<2, 1>>, <<2, 2>>>>

\* the part of a full name before the "/"
OwnerOf(full_name) ==
    SubSeq(full_name, 1, (CHOOSE i \in 1..Len(full_name) : full_name[i] = "/") - 1)
HasUnderscore(s) == \E i \in 1..Len(s) : s[i] = "_"
IdsComputed == id_out # NoIds

(***************************************************************************)
(* C21: two different (full name, pull number) pairs never get the same    *)
(* instance id.                                                            *)
(***************************************************************************)
C21_IdsInjective ==
    (IdsComputed /\ id_pulls[1] # id_pulls[2]) => id_out[1] # id_out[2]

(***************************************************************************)
(* C21, amended: equal pairs get equal ids, and two different pairs whose  *)
(* owners hold no underscore get different ids.                            *)
(***************************************************************************)
C21_IdsInjectiveForPlainOwners ==
    IdsComputed =>
        /\ id_pulls[1] = id_pulls[2] => id_out[1] = id_out[2]
        /\ (/\ id_pulls[1] # id_pulls[2]
            /\ ~HasUnderscore(OwnerOf(id_pulls[1].full_name))
            /\ ~HasUnderscore(OwnerOf(id_pulls[2].full_name)))
              => id_out[1] # id_out[2]

\* pull 2 of a/b-1 and pull 12 of a/b: a__b-1-2 and a__b-12
C21_Witness ==
    /\ IdsComputed
    /\ id_pulls[1] = [full_name |-> <<"a", "/", "b", "-", "1">>, number |-> 2]
    /\ id_pulls[2] = [full_name |-> <<"a", "/", "b">>, number |-> 12]
    /\ id_out[1] = <<"a", "_", "_", "b", "-", "1", "-", "2">>
    /\ id_out[2] = <<"a", "_", "_", "b", "-", "1", "2">>

\* the instants the two date strings denote, in hours (updatedAt is UTC)
UpdateInstant(c) == strptime(c.updatedAt)
FirstCommitInstant == timestamp(parse(h_commits[1]))
InText(body, text) == \E k \in 1..Len(text) : text[k] = body

(***************************************************************************)
(* C22: a comment updated before the author date of the pull's first       *)
(* commit is in the hint text and in the all-comments text; one updated    *)
(* after it is in the all-comments text only.                              *)
(***************************************************************************)
C22_HintsCutAtFirstCommit ==
    (h_out # NoHints /\ h_commits # <<>>) =>
        \A i \in 1..Len(h_comments) :
            LET c == h_comments[i]
            IN  /\ InText(c.body, h_out.all)
                /\ UpdateInstant(c) < FirstCommitInstant
                      => InText(c.body, h_out.hints)
                /\ UpdateInstant(c) > FirstCommitInstant
                      => ~InText(c.body, h_out.hints)

HasTestWord(path) ==
    \E w \in {<<"t", "e", "s", "t">>, <<"t", "e", "s", "t", "s">>,
              <<"e", "2", "e">>, <<"t", "e", "s", "t", "i", "n", "g">>} :
        \E i, j \in 1..Len(path) : SubSeq(path, i, j) = w
TextsOf(files) == [i \in 1..Len(files) |-> files[i].text]

(***************************************************************************)
(* C23: the test patch is made of the files of the diff whose path holds   *)
(* one of the words test, tests, e2e, testing, the fix patch of the other  *)
(* files, each in the order of the diff; so every file is in exactly one.  *)
(***************************************************************************)
C23_FilesSplitByPath ==
    p_out # NoPatches =>
        /\ p_out.patch_test =
               TextsOf(SelectSeq(PatchSet(p_diff),
                                 LAMBDA f : HasTestWord(f.path)))
        /\ p_out.patch_fix =
               TextsOf(SelectSeq(PatchSet(p_diff),
                                 LAMBDA f : ~HasTestWord(f.path)))

\* latest.c, a.c, test/a.c: the first and the third make the test patch
C23_Witness ==
    /\ p_out # NoPatches
    /\ p_diff = <<<<"l", "a", "t", "e", "s", "t", ".", "c">>, <<"a", ".", "c">>,
                  <<"t", "e", "s", "t", "/", "a", ".", "c">>>>
    /\ Len(p_out.patch_test) = 2 /\ Len(p_out.patch_fix) = 1

\* the ids of the records of a tier file
IdsOf(file) == {file[i].instance_id : i \in 1..Len(file)}
\* the records a tier file held when the run began, and those added since
AtStart(file, k) == SubSeq(file, 1, m_len0[k])
WrittenSince(file, k) == SubSeq(file, m_len0[k] + 1, Len(file))
WrittenIds ==
    IdsOf(WrittenSince(base_file, 1)) \cup IdsOf(WrittenSince(medium_file, 2))
        \cup IdsOf(WrittenSince(high_file, 3))
LineId == instance_id(MainRepo, pr_file[m_ix])
\* the loop handles a line whose id the .base file held when the run began
SeenLineStep ==
    /\ m_pc = "loop" /\ m_ix <= Len(pr_file) /\ m_ix' = m_ix + 1
    /\ LineId \in IdsOf(AtStart(base_file, 1))

C25_NotAssembledAgain == assembled \cap assembled_now = {}

\* the step in which create_instance raised
RaiseStep == m_out' # m_out /\ m_out'.kind = "raised"

(***************************************************************************)
(* C26: the step in which create_instance raises changes no file and no    *)
(* tier counter and leaves the loop at the next line; the loop is never    *)
(* left by an exception.                                                   *)
(***************************************************************************)
C26_RaiseSkipsPull ==
    /\ [](m_pc # "aborted")
    /\ [][RaiseStep =>
            /\ UNCHANGED <<tier_files, tier_counters>>
            /\ m_pc' = "loop" /\ m_ix' = m_ix + 1]_vars

\* create_instance raised for the second line after the first line's record
\* was written in the same run; the loop is at the third line
C26_Witness ==
    /\ m_out = [kind |-> "raised", ix |-> 2, run |-> m_run]
    /\ m_pc = "loop" /\ m_ix = 3
    /\ Len(WrittenSince(base_file, 1)) = 1

(***************************************************************************)
(* C27: at every point the ids of the .high file are ids of the .medium    *)
(* file, those of the .medium file are ids of the .base file, and          *)
(* high_instances <= medium_instances <= base_instances.                   *)
(***************************************************************************)
C27_TiersCumulative ==
    /\ IdsOf(high_file) \subseteq IdsOf(medium_file)
    /\ IdsOf(medium_file) \subseteq IdsOf(base_file)
    /\ high_instances <= medium_instances
    /\ medium_instances <= base_instances

\* a second run, started on files an interrupted run left, between the
\* write to the .base file and the write to the .medium file
C27_Witness ==
    /\ m_run = 2 /\ m_pc = "medium"
    /\ high_file # <<>> /\ m_len0[3] = Len(high_file)
    /\ IdsOf(base_file) # IdsOf(medium_file)
    /\ base_instances = medium_instances + 1

(***************************************************************************)
(* C38: the records a run has added to the .base file have pairwise        *)
(* different ids.                                                          *)
(***************************************************************************)
C38_BaseIdOncePerRun ==
    \A i, j \in (m_len0[1] + 1)..Len(base_file) :
        i # j => base_file[i].instance_id # base_file[j].instance_id

\* a tier file holds a record with the id of the record r
Holds(file, r) == r.instance_id \in IdsOf(file)

(***************************************************************************)
(* C39: when a run has read the pull file through, every record of the     *)
(* .base file that meets the medium criteria is in the .medium file and    *)
(* every record of the .medium file that meets the high criteria is in the *)
(* .high file, whatever runs were interrupted before it.                   *)
(***************************************************************************)
C39_TiersCompleteAfterRerun ==
    m_pc = "done" =>
        /\ \A i \in 1..Len(base_file) :
              is_valid_instance_medium(base_file[i])
                  => Holds(medium_file, base_file[i])
        /\ \A i \in 1..Len(medium_file) :
              is_valid_instance_high(medium_file[i])
                  => Holds(high_file, medium_file[i])

\* the count query of cur just failed with an exception
CountFailed ==
    /\ pc = "count" /\ RequestStep
    /\ github_api_request(last_req'.status) = "raise"
\* no item of the result has a star value of the range r
AbsentFromResult(r) ==
    \A k \in 1..Len(all_results) : ~InRange(all_results[k][1], r)

(***************************************************************************)
(* C35: the step in which the count query of a range fails leaves the      *)
(* worklist as it is (the range, popped before, is not appended), adds     *)
(* nothing to the result and goes back to the head of the loop; the range  *)
(* is never in the worklist, processed or paginated afterwards, and the    *)
(* result holds no repository of it.                                       *)
(***************************************************************************)
C35_CountFailureDropsRange ==
    /\ [][CountFailed =>
            /\ queue' = queue /\ pc' = "loop"
            /\ all_results' = all_results /\ cur \in discarded']_vars
    /\ [](\A r \in discarded :
            /\ r \notin Elems(queue) /\ r \notin paginated
            /\ Processing => cur # r
            /\ AbsentFromResult(r))

\* the count query of a range that holds repositories failed, another
\* range is waiting
C35_Witness ==
    /\ pc = "loop" /\ last_req.phase = "count"
    /\ github_api_request(last_req.status) = "raise"
    /\ cur \in discarded /\ cur \notin Elems(queue) /\ queue # <<>>
    /\ RemoteTotal(repos, QueryOf(cur)) > 0

\* the ends of a range and the star values next to them outside it
Ends(r) == {r[1] - 1, r[1]} \cup (IF Bounded(r) THEN {r[2], r[2] + 1} ELSE {})
\* in how many places the star value s is: ranges of the worklist q, the
\* range being processed (one or none, in c), paginated and discarded ranges
Places(s, q, c, p, d) ==
    Cardinality({i \in 1..Len(q) : InRange(s, q[i])})
      + Cardinality({r \in c : InRange(s, r)})
      + Cardinality({r \in p : InRange(s, r)})
      + Cardinality({r \in d : InRange(s, r)})

(***************************************************************************)
(* C36: every star value of the seeded range is in exactly one of: a range *)
(* of the worklist, the range being processed, a paginated range, a        *)
(* discarded range; a star value outside the seeded range is in none.      *)
(* (Checked for the ends of every range in play and their neighbours.)     *)
(***************************************************************************)
C36_StarValuesAccounted ==
    pc # "config_error" =>
        LET c == IF Processing THEN {cur} ELSE {}
            whole == SeedRange
            probes == UNION {Ends(r) : r \in Pieces \cup {whole}}
        IN  \A s \in probes :
                Places(s, queue, c, paginated, discarded)
                    = IF InRange(s, whole) THEN 1 ELSE 0

\* all four places are taken: a range is being counted, another waits, one
\* was paginated and two were discarded
C36_Witness ==
    /\ pc = "count" /\ Len(queue) = 1
    /\ Cardinality(paginated) = 1 /\ Cardinality(discarded) = 2

\* two runs <<star, first, last>> of the result share a repository
Overlap(a, b) == a[1] = b[1] /\ a[2] <= b[3] /\ b[2] <= a[3]
ItemsOfRange(r) ==
    ItemCount(SelectSeq(all_results, LAMBDA x : InRange(x[1], r)))
PageFailed ==
    /\ pc = "page" /\ RequestStep
    /\ github_api_request(last_req'.status) = "raise"

(***************************************************************************)
(* C37: a failed page request adds nothing to the result; the result never *)
(* holds a repository twice; it holds all repositories of every paginated  *)
(* range, once, and none of any other range.                               *)
(***************************************************************************)
C37_AllOrNothing ==
    /\ [][PageFailed => all_results' = all_results]_vars
    /\ [](\A i, j \in 1..Len(all_results) :
            i # j => ~Overlap(all_results[i], all_results[j]))
    /\ [](\A r \in paginated :
            ItemsOfRange(r) = RemoteTotal(repos, QueryOf(r)))
    /\ [](\A k \in 1..Len(all_results) :
            \E r \in paginated : InRange(all_results[k][1], r))

\* the second page request of a range failed after its first page was
\* read; the range was taken from the worklist again and the result is empty
C37_Witness ==
    /\ pc = "count" /\ last_req.phase = "page"
    /\ github_api_request(last_req.status) = "raise"
    /\ all_items # <<>> /\ all_results = <<>> /\ cur \notin paginated

\* the items of the pages 1..n of a query, in page order
RECURSIVE PagesUpTo(_, _)
PagesUpTo(q, n) ==
    IF n = 0 THEN <<>> ELSE PagesUpTo(q, n - 1) \o RemoteItems(repos, q, n)
IsPrefix(a, b) == Len(a) <= Len(b) /\ SubSeq(b, 1, Len(a)) = a
\* the worklist is taken from at the head and added to at the tail only
FifoStep ==
    IF pc = "loop" /\ pc' = "count"
      THEN cur' = Head(queue) /\ queue' = Tail(queue)
    ELSE IsPrefix(queue, queue')
\* the result grows at its end only, by all pages of the range whose last
\* page was just read
ResultStep ==
    all_results' # all_results =>
        /\ pc = "page" /\ cur \in paginated' /\ cur \notin paginated
        /\ all_results' = all_results \o PagesUpTo(QueryOf(cur), page)
\* pages are requested one after the other from page 1
PageStep ==
    /\ (pc = "count" /\ pc' = "page") => page' = 1
    /\ (pc = "page" /\ pc' = "page") => page' \in {page, page + 1}
PagesInOrder ==
    pc = "page" =>
        /\ page \in 1..max_pages
        /\ all_items = PagesUpTo(QueryOf(cur), page - 1)
        /\ \A n \in 1..(page - 1) :
              ItemCount(RemoteItems(repos, QueryOf(cur), n)) = per_page

(***************************************************************************)
(* C34: ranges are taken from the head of the worklist and appended at its *)
(* tail; the result grows only at its end, by the items of the range just  *)
(* paginated; the pages of a range are requested from 1 upwards, at most   *)
(* 10, and their items kept in page order.                                 *)
(***************************************************************************)
C34_FifoAndPageOrder ==
    [](PagesInOrder) /\ [][FifoStep /\ ResultStep /\ PageStep]_vars

\* two ranges were paginated one after the other, the first one in ten
\* pages: its items, of fewer stars, come first in the result
C34_Witness ==
    /\ pc = "loop" /\ Cardinality(paginated) = 2
    /\ Len(all_results) > max_pages
    /\ all_results[1][1] < all_results[Len(all_results)][1]

\* no tag of the cache is dated later than the tag at index 0
NewestFirst ==
    \A j \in 1..Len(CacheTags) :
        ParseDate(CacheTags[j].date) <= ParseDate(CacheTags[1].date)
\* the nearest-by-date step gives no version
NoNearestVersion ==
    \/ v_commit_date = NoDate
    \/ major_minor(closest_tag(CacheTags, v_commit_date).name) = <<>>

(***************************************************************************)
(* C33: without a tag on the requested commit and without a version from   *)
(* the nearest-by-date step, the resolution returns the major.minor of the *)
(* cached tag at index 0, which no cached tag is newer than, and not-found *)
(* only when that name has none; with an empty cache it returns not-found. *)
(***************************************************************************)
C33_NewestTagFallback ==
    (Resolved /\ MatchingTags = <<>>) =>
        IF Truthy(tags_cache)
          THEN NoNearestVersion =>
                  /\ NewestFirst
                  /\ v_result =
                         IF major_minor(CacheTags[1].name) # <<>>
                           THEN Found(major_minor(CacheTags[1].name))
                         ELSE NotFound
        ELSE v_result = NotFound

\* the nodes of the first k pages of the remote connection, in order
RECURSIVE FirstPages(_)
FirstPages(k) ==
    IF k = 0 THEN <<>>
    ELSE FirstPages(k - 1) \o PageAfter(gl_world, k - 1).nodes
LimitGiven == gl_num_pages # 0
WithinLimit ==
    LimitGiven =>
        /\ gl_page <= gl_num_pages
        /\ \E k \in 0..gl_num_pages : gl_yielded = FirstPages(k)
StopsAtLimit ==
    (LimitGiven /\ ReadStep /\ gl_page = gl_num_pages) => gl_pc' = "done"

FailStep == gl_pc = "request" /\ gl_out'.kind # "return_response"

(***************************************************************************)
(* C32: a failed page request leaves the cursor, the page counter and the  *)
(* yielded values as they are, and the loop waiting or about to request    *)
(* again; get_all_loop never ends by an exception.                         *)
(***************************************************************************)
C32_FailureRetriesSamePage ==
    /\ [](gl_pc # "raised")
    /\ [][FailStep =>
            /\ gl_after' = gl_after /\ gl_page' = gl_page
            /\ gl_yielded' = gl_yielded
            /\ gl_pc' \in {"request", "wait"}]_vars

=============================================================================
